---- MODULE Spec2Model ----
(***************************************************************************)
(* Model of the plotting utilities of asolee/Utils (src/plots).            *)
(*                                                                         *)
(* Every plotting function is a synchronous, single-pass transformation of *)
(* a table and a set of options.  A behaviour of the model is one call: the *)
(* initial state holds the arguments of a pending call (args), and the one *)
(* action of the called function computes everything the function computes *)
(* and leaves it in res.                                                   *)
(*                                                                         *)
(* Conventions                                                             *)
(*   - an optional argument is a sequence of length 0 (None) or 1;         *)
(*   - a DataFrame is [isDataFrame, columns, rows]; a row is a function    *)
(*     from column names to cell values;                                   *)
(*   - numbers of the aggregated tables are exact rationals [n, d];        *)
(*   - x coordinates are kept in twentieths (1.0 is 20), so that the       *)
(*     defaults 0.5, 0.6, 0.1 and 1.5 of the layout code are integers.     *)
(***************************************************************************)
EXTENDS Integers, Sequences, FiniteSets, TLC

VARIABLES args, res

vars == <<args, res>>

----------------------------------------------------------------------------
(* Bounds of the explored inputs *)

MaxRows == 2

MaxValue == 1

MaxLayoutRows == 3

MaxSpacing == 1

----------------------------------------------------------------------------
(* Python values *)

None == <<>>

Some(v) == <<v>>

IsNone(o) == o = <<>>

Get(o) == o[1]

\* truthiness of an optional string: None and "" are false
Truthy(o) == o # <<>> /\ o[1] # ""

Range(s) == {s[i] : i \in DOMAIN s}

NoDup(s) == \A i, j \in DOMAIN s : i # j => s[i] # s[j]

\* [x for x in s if x in keep]
RECURSIVE Filter(_, _)
Filter(s, keep) ==
    IF s = <<>> THEN <<>>
    ELSE IF Head(s) \in keep THEN <<Head(s)>> \o Filter(Tail(s), keep)
         ELSE Filter(Tail(s), keep)

\* list.remove(v): drops the first occurrence only
RECURSIVE RemoveFirst(_, _)
RemoveFirst(s, v) ==
    IF s = <<>> THEN <<>>
    ELSE IF Head(s) = v THEN Tail(s)
         ELSE <<Head(s)>> \o RemoveFirst(Tail(s), v)

\* Series.unique(): distinct values in order of first appearance
RECURSIVE Unique(_)
Unique(s) ==
    IF s = <<>> THEN <<>>
    ELSE LET u == Unique(SubSeq(s, 1, Len(s) - 1))
         IN  IF s[Len(s)] \in Range(u) THEN u ELSE Append(u, s[Len(s)])

RECURSIVE SumSeq(_)
SumSeq(s) == IF s = <<>> THEN 0 ELSE Head(s) + SumSeq(Tail(s))

----------------------------------------------------------------------------
(* Exact rationals *)

RECURSIVE Gcd(_, _)
Gcd(a, b) == IF b = 0 THEN a ELSE Gcd(b, a % b)

Abs(n) == IF n < 0 THEN 0 - n ELSE n

Reduce(n, d) ==
    LET g == Gcd(Abs(n), d)
    IN  [n |-> n \div g, d |-> d \div g]

Frac(n) == [n |-> n, d |-> 1]

FracAdd(p, q) == Reduce(p.n * q.d + q.n * p.d, p.d * q.d)

\* p / q for q > 0
FracDiv(p, q) == Reduce(p.n * q.d, p.d * q.n)

FracMul(p, q) == Reduce(p.n * q.n, p.d * q.d)

FracLess(p, q) == p.n * q.d < q.n * p.d

RECURSIVE FracSum(_)
FracSum(s) == IF s = <<>> THEN Frac(0) ELSE FracAdd(Head(s), FracSum(Tail(s)))

Zero == Frac(0)

One == Frac(1)

----------------------------------------------------------------------------
(* Labels of the explored tables *)

\* axis (meta_column) values, in the order pandas sorts them
AxisValues ==
    <<"A", "B", "C", "D", "E", "F", "G", "H", "I",
      "J", "K", "L", "M", "N", "O", "P", "Q", "R">>

\* group_by_column values, in the order pandas sorts them
GroupValues == <<"G1", "G2", "G3", "G4", "G5", "G6", "G7", "G8", "G9">>

\* sorted(set(s)): the group keys of groupby(meta_column), which sorts them
SortedKeys(s) == Filter(AxisValues, Range(s))

----------------------------------------------------------------------------
(* pandas helpers shared by the plotting functions *)

\* dataset[[c1, c2]]: the rows restricted to two columns
Pairs(dataset, c1, c2) ==
    [i \in DOMAIN dataset.rows |-> <<dataset.rows[i][c1], dataset.rows[i][c2]>>]

\* DataFrame.drop_duplicates(): keeps the first occurrence of every row
DropDuplicates(s) == Unique(s)

\* a test that compares neighbouring rows only
AnyDuplicatedAdjacent(s) == \E i \in DOMAIN s : i + 1 \in DOMAIN s /\ s[i][1] = s[i + 1][1]

\* DataFrame.duplicated(subset=[first column]).any()
AnyDuplicated(s) == \E i, j \in DOMAIN s : i < j /\ s[i][1] = s[j][1]

\* the consistency check of an axis column against a per-axis column:
\* dataset[[meta, col]].drop_duplicates().duplicated(subset=[meta]).any()
Inconsistent(dataset, meta_column, col) ==
    AnyDuplicated(DropDuplicates(Pairs(dataset, meta_column, col)))

\* dataset.set_index(meta_column)[col].to_dict(): the last row of a key wins
ToDict(dataset, meta_column, col) ==
    [k \in {dataset.rows[i][meta_column] : i \in DOMAIN dataset.rows} |->
        LET last == CHOOSE i \in DOMAIN dataset.rows :
                       /\ dataset.rows[i][meta_column] = k
                       /\ \A j \in DOMAIN dataset.rows :
                             dataset.rows[j][meta_column] = k => j <= i
        IN  dataset.rows[last][col]]

\* dict.get(key): None when the key is absent
DictGet(d, k) == IF k \in DOMAIN d THEN Some(d[k]) ELSE None

\* the column of a table as a list
Column(dataset, c) == [i \in DOMAIN dataset.rows |-> dataset.rows[i][c]]

\* insertion of v into an ascending list, after the elements equal to it
RECURSIVE InsertFrac(_, _)
InsertFrac(s, v) ==
    IF s = <<>> THEN <<v>>
    ELSE IF FracLess(v, Head(s)) THEN <<v>> \o s
         ELSE <<Head(s)>> \o InsertFrac(Tail(s), v)

RECURSIVE SortFracs(_)
SortFracs(s) ==
    IF s = <<>> THEN <<>> ELSE InsertFrac(SortFracs(SubSeq(s, 1, Len(s) - 1)), s[Len(s)])

\* median of a non-empty list of rationals: the middle element, or the mean
\* of the two middle elements
MedianFracs(s) ==
    LET t == SortFracs(s)
        n == Len(t)
    IN  IF n % 2 = 1 THEN t[(n + 1) \div 2]
        ELSE FracDiv(FracAdd(t[n \div 2], t[n \div 2 + 1]), Frac(2))

\* groupby(...).sum() / .median() / .mean() of the values of one cell
Aggregate(scaling, values) ==
    CASE scaling = "none"   -> Frac(SumSeq(values))
      [] scaling = "median" -> MedianFracs([i \in DOMAIN values |-> Frac(values[i])])
      [] scaling = "mean"   -> Reduce(SumSeq(values), Len(values))

\* Series.sort_values(): the labels ordered by their keys; equal keys keep
\* their order (ascending), and the descending order is the ascending sort of
\* the reversed list, reversed (pandas nargsort)
Reverse(s) == [i \in DOMAIN s |-> s[Len(s) + 1 - i]]

RECURSIVE InsertByKey(_, _, _)
InsertByKey(s, v, key) ==
    IF s = <<>> THEN <<v>>
    ELSE IF FracLess(key[v], key[Head(s)]) THEN <<v>> \o s
         ELSE <<Head(s)>> \o InsertByKey(Tail(s), v, key)

RECURSIVE SortAscending(_, _)
SortAscending(labels, key) ==
    IF labels = <<>> THEN <<>>
    ELSE InsertByKey(SortAscending(SubSeq(labels, 1, Len(labels) - 1), key),
                     labels[Len(labels)], key)

\* a sort that ignores the direction asked for
SortValuesAscendingOnly(labels, key, ascending) == SortAscending(labels, key)

SortValues(labels, key, ascending) ==
    IF ascending THEN SortAscending(labels, key)
    ELSE Reverse(SortAscending(Reverse(labels), key))

----------------------------------------------------------------------------
(* create_stacked_barplot: input validation (barplot_stacked_plot.py)      *)
(* Arguments that the explored calls leave at their defaults (colours,     *)
(* ax_width / aspect, fonts) pass their checks and are not represented.    *)

Raise(exc, check) == [exc |-> exc, check |-> check]

NoError == [exc |-> "none", check |-> "none"]

\* focus_value = [] when None
focus_value_list(a) == IF IsNone(a.focus_value) THEN <<>> ELSE Get(a.focus_value)

\* the checks of collapse_focus_values_as without the test of the name 'others'
collapse_check_without_others(a) ==
    IF IsNone(a.collapse_focus_values_as) THEN NoError
    ELSE IF focus_value_list(a) = <<>>
         THEN Raise("ValueError", "collapse_without_focus")
    ELSE IF /\ Get(a.collapse_focus_values_as) \in a.dataset.columns
            /\ Get(a.collapse_focus_values_as) \notin Range(a.value_columns)
            /\ Get(a.collapse_focus_values_as) # a.meta_column
         THEN Raise("ValueError", "collapse_name_is_column")
    ELSE NoError

\* the checks of collapse_focus_values_as, in the order of the code
collapse_check(a) ==
    IF IsNone(a.collapse_focus_values_as) THEN NoError
    ELSE IF focus_value_list(a) = <<>>
         THEN Raise("ValueError", "collapse_without_focus")
    ELSE IF Get(a.collapse_focus_values_as) = "others"
         THEN Raise("ValueError", "collapse_named_others")
    ELSE IF /\ Get(a.collapse_focus_values_as) \in a.dataset.columns
            /\ Get(a.collapse_focus_values_as) \notin Range(a.value_columns)
            /\ Get(a.collapse_focus_values_as) # a.meta_column
         THEN Raise("ValueError", "collapse_name_is_column")
    ELSE NoError

\* the checks of group_by_column
group_check(a) ==
    IF ~Truthy(a.group_by_column) THEN NoError
    ELSE IF Get(a.group_by_column) \notin a.dataset.columns
         THEN Raise("ValueError", "group_by_column")
    ELSE IF Inconsistent(a.dataset, a.meta_column, Get(a.group_by_column))
         THEN Raise("ValueError", "group_consistency")
    ELSE NoError

\* the checks of meta_order
meta_order_check(a) ==
    IF IsNone(a.meta_order) THEN NoError
    ELSE IF ~(Range(Column(a.dataset, a.meta_column)) \subseteq Range(Get(a.meta_order)))
         THEN Raise("ValueError", "meta_order_missing")
    ELSE IF Len(Get(a.meta_order)) # Cardinality(Range(Get(a.meta_order)))
         THEN Raise("ValueError", "meta_order_duplicates")
    ELSE NoError

\* the checks of boxes_column, a column absent from the table being ignored
boxes_check_ignoring_absent(a) ==
    IF ~Truthy(a.boxes_column) \/ Get(a.boxes_column) \notin a.dataset.columns THEN NoError
    ELSE IF Inconsistent(a.dataset, a.meta_column, Get(a.boxes_column))
         THEN Raise("ValueError", "boxes_consistency")
    ELSE NoError

\* the checks of boxes_column
boxes_check(a) ==
    IF ~Truthy(a.boxes_column) THEN NoError
    ELSE IF Get(a.boxes_column) \notin a.dataset.columns
         THEN Raise("ValueError", "boxes_column")
    ELSE IF Inconsistent(a.dataset, a.meta_column, Get(a.boxes_column))
         THEN Raise("ValueError", "boxes_consistency")
    ELSE NoError

\* the first failing check of the validation block, NoError when all pass
stacked_validation(a) ==
    IF ~a.dataset.isDataFrame THEN Raise("TypeError", "dataset")
    ELSE IF a.meta_column \notin a.dataset.columns
         THEN Raise("ValueError", "meta_column")
    ELSE IF ~(Range(a.value_columns) \subseteq a.dataset.columns)
         THEN Raise("ValueError", "value_columns")
    ELSE IF ~(Range(focus_value_list(a)) \subseteq Range(a.value_columns))
         THEN Raise("ValueError", "focus_value")
    ELSE IF collapse_check(a) # NoError THEN collapse_check(a)
    ELSE IF group_check(a) # NoError THEN group_check(a)
    ELSE IF a.group_position \notin {"bottom", "middle", "top"}
         THEN Raise("ValueError", "group_position")
    ELSE IF a.scaling \notin {"none", "median", "mean"}
         THEN Raise("ValueError", "scaling")
    ELSE IF a.value_order \notin {"default", "median_descending", "median_ascending"}
         THEN Raise("ValueError", "value_order")
    ELSE IF meta_order_check(a) # NoError THEN meta_order_check(a)
    ELSE boxes_check(a)

----------------------------------------------------------------------------
(* create_stacked_barplot: data preparation and aggregation *)

\* Scenario 1 is taken when a collapse name and a non-empty focus are given
collapsing(a) == ~IsNone(a.collapse_focus_values_as) /\ focus_value_list(a) # <<>>

\* every value column, in focus_value or not
others_cols_all(a) == a.value_columns

\* the value columns outside focus_value, in value_columns order
others_cols(a) == Filter(a.value_columns, Range(a.value_columns) \ Range(focus_value_list(a)))

\* cols_to_plot_y: the categories handed to the aggregation
cols_to_plot_y(a) ==
    IF collapsing(a)
    THEN <<Get(a.collapse_focus_values_as)>> \o (IF others_cols(a) # <<>> THEN <<"others">> ELSE <<>>)
    ELSE IF focus_value_list(a) # <<>>
    THEN focus_value_list(a) \o (IF others_cols(a) # <<>> THEN <<"others">> ELSE <<>>)
    ELSE a.value_columns

\* df[name] = v on one row: the column is added, or overwritten when present
SetColumn(r, name, v) == [c \in DOMAIN r \cup {name} |-> IF c = name THEN v ELSE r[c]]

\* df_plot[cols].sum(axis=1) of one row
row_sum_of(r, cols) == SumSeq([i \in DOMAIN cols |-> r[cols[i]]])

\* one row of df_plot after the assignments of the taken scenario; the
\* assignments are applied in the order of the code, so a later sum reads a
\* column an earlier assignment has overwritten
df_plot_row(a, row) ==
    LET r0 == [c \in Range(a.value_columns) |-> row[c]]
        r1 == IF collapsing(a)
              THEN SetColumn(r0, Get(a.collapse_focus_values_as), row_sum_of(r0, focus_value_list(a)))
              ELSE r0
    IN  IF (collapsing(a) \/ focus_value_list(a) # <<>>) /\ others_cols(a) # <<>>
        THEN SetColumn(r1, "others", row_sum_of(r1, others_cols(a)))
        ELSE r1

df_plot(a) == [i \in DOMAIN a.dataset.rows |-> df_plot_row(a, a.dataset.rows[i])]

\* the index of the aggregated table: groupby sorts the axis values
grouped_index(a) == SortedKeys(Column(a.dataset, a.meta_column))

\* the value of category c in the first row of axis value k only
cell_values_first(a, k, c) ==
    LET first == CHOOSE i \in DOMAIN a.dataset.rows :
                    /\ a.dataset.rows[i][a.meta_column] = k
                    /\ \A j \in DOMAIN a.dataset.rows :
                          a.dataset.rows[j][a.meta_column] = k => i <= j
    IN  <<df_plot(a)[first][c]>>

\* the values of category c in the rows of axis value k, in row order
cell_values(a, k, c) ==
    LET idx == Filter([i \in DOMAIN a.dataset.rows |-> i],
                      {i \in DOMAIN a.dataset.rows : a.dataset.rows[i][a.meta_column] = k})
    IN  [j \in DOMAIN idx |-> df_plot(a)[idx[j]][c]]

\* grouped_df: df_plot_final.groupby(meta_column)[cols_to_plot_y].sum() etc.
grouped_df(a) ==
    [k \in Range(grouped_index(a)) |->
        [c \in Range(cols_to_plot_y(a)) |-> Aggregate(a.scaling, cell_values(a, k, c))]]

\* DataFrame.sum(axis=1) of one row of a table with the given columns
table_row_sum(table, k, cols) == FracSum([i \in DOMAIN cols |-> table[k][cols[i]]])

\* a normalization by the total of the whole table instead of the row's
row_sums_of_table(a) ==
    [k \in Range(grouped_index(a)) |->
        LET s == FracSum([i \in DOMAIN grouped_index(a) |->
                            table_row_sum(grouped_df(a), grouped_index(a)[i], cols_to_plot_y(a))])
        IN  IF s = Zero THEN One ELSE s]

\* row_sums, with the zero sums replaced by 1
row_sums(a) ==
    LET table == grouped_df(a)
    IN  [k \in Range(grouped_index(a)) |->
            LET s == table_row_sum(table, k, cols_to_plot_y(a))
            IN  IF s = Zero THEN One ELSE s]

\* grouped_df_scaled: the normalized table, or a copy of grouped_df
grouped_df_scaled(a) ==
    IF a.normalize_data
    THEN LET table == grouped_df(a)
             sums == row_sums(a)
         IN  [k \in Range(grouped_index(a)) |->
                [c \in Range(cols_to_plot_y(a)) |-> FracDiv(table[k][c], sums[k])]]
    ELSE grouped_df(a)

\* grouped_df_scaled.median(): the median of every category over the bars
median_contributions(a) ==
    LET table == grouped_df_scaled(a)
        index == grouped_index(a)
    IN  [c \in Range(cols_to_plot_y(a)) |->
            MedianFracs([i \in DOMAIN index |-> table[index[i]][c]])]

\* the sorted order left as it is
others_in_place(cats) == cats

\* 'others' moved to the end: list.remove followed by list.append
others_last(cats) ==
    IF "others" \in Range(cats) THEN Append(RemoveFirst(cats, "others"), "others") ELSE cats

\* sorted_categories: the plotting order of the categories
sorted_categories(a) ==
    IF a.value_order = "default"
    THEN Filter(cols_to_plot_y(a), Range(cols_to_plot_y(a)) \ {"others"})
         \o (IF "others" \in Range(cols_to_plot_y(a)) THEN <<"others">> ELSE <<>>)
    ELSE others_last(SortValues(cols_to_plot_y(a), median_contributions(a),
                                a.value_order = "median_ascending"))

\* color_map = {} when None
color_map_dict(a) == IF IsNone(a.color_map) THEN <<>> ELSE Get(a.color_map)

\* default_colors: the colours of plt.rcParams['axes.prop_cycle']
default_colors(a) == a.rcParams.axes_prop_cycle

\* default_colors[color_idx % len(default_colors)]
default_color(a, color_idx) == default_colors(a)[(color_idx % Len(default_colors(a))) + 1]

\* the colour of the category 'others'
others_color(a) ==
    IF "others" \in DOMAIN color_map_dict(a) THEN color_map_dict(a)["others"] ELSE "gray"

\* a loop over the columns that advances color_idx on every column
RECURSIVE assign_colors_counting_all(_, _, _, _)
assign_colors_counting_all(a, cols, map, color_idx) ==
    IF cols = <<>> THEN map
    ELSE assign_colors_counting_all(a, Tail(cols),
             SetColumn(map, Head(cols),
                       IF Head(cols) \in DOMAIN color_map_dict(a)
                       THEN color_map_dict(a)[Head(cols)] ELSE default_color(a, color_idx)),
             color_idx + 1)

\* the loop 'for col in ...' of scenarios 2 and 3: the colour of color_map,
\* or the next default colour, color_idx advancing only then
RECURSIVE assign_colors(_, _, _, _)
assign_colors(a, cols, map, color_idx) ==
    IF cols = <<>> THEN map
    ELSE IF Head(cols) \in DOMAIN color_map_dict(a)
    THEN assign_colors(a, Tail(cols),
                       SetColumn(map, Head(cols), color_map_dict(a)[Head(cols)]), color_idx)
    ELSE assign_colors(a, Tail(cols),
                       SetColumn(map, Head(cols), default_color(a, color_idx)), color_idx + 1)

\* category_colors_internal_map after the taken scenario
category_colors_internal_map(a) ==
    LET name == Get(a.collapse_focus_values_as)
        collapsed == IF Truthy(a.collapsed_color) THEN Get(a.collapsed_color)
                     ELSE IF name \in DOMAIN color_map_dict(a) THEN color_map_dict(a)[name]
                     ELSE default_color(a, 0)
        named == IF collapsing(a) THEN SetColumn(<<>>, name, collapsed)
                 ELSE IF focus_value_list(a) # <<>>
                 THEN assign_colors(a, focus_value_list(a), <<>>, 0)
                 ELSE assign_colors(a, a.value_columns, <<>>, 0)
    IN  IF (collapsing(a) \/ focus_value_list(a) # <<>>) /\ others_cols(a) # <<>>
        THEN SetColumn(named, "others", others_color(a))
        ELSE named

\* the colours in plotting order
final_colors_for_plotting(a) ==
    LET order == sorted_categories(a)
        colours == category_colors_internal_map(a)
    IN  [i \in DOMAIN order |-> colours[order[i]]]

\* the rows of the aggregated table as groupby left them
final_meta_order_as_grouped(a) == grouped_index(a)

\* final_meta_order: the bars from left to right
final_meta_order(a) ==
    IF IsNone(a.meta_order) THEN grouped_index(a)
    ELSE Filter(Get(a.meta_order), Range(grouped_index(a)))

----------------------------------------------------------------------------
(* create_stacked_barplot: bar positions, group brackets, export *)

\* current_x += 1: the step from one bar to the next (1.0)
bar_step == 20

\* internal_grouping_map: axis value -> group value
internal_grouping_map(a) == ToDict(a.dataset, a.meta_column, Get(a.group_by_column))

\* the state of the layout loop before the first bar
layout_start ==
    [current_x |-> 0, previous_group |-> None, group_start_x |-> 0,
     group_label_data |-> <<>>, x_positions |-> <<>>, x_labels |-> <<>>,
     group_member_counts |-> <<>>]

\* group_label_data[-1] with its end coordinate set
close_last(gld, end_x) ==
    [gld EXCEPT ![Len(gld)] = [group |-> gld[Len(gld)].group, start_x |-> gld[Len(gld)].start_x,
                               end_x |-> Some(end_x)]]

\* dict[key] = dict.get(key, 0) + 1
count_up(counts, key) ==
    [k \in DOMAIN counts \cup {key} |->
        (IF k \in DOMAIN counts THEN counts[k] ELSE 0) + (IF k = key THEN 1 ELSE 0)]

\* an iteration that inserts group_spacing before every bar after the first
stacked_layout_step_spacing_everywhere(st, meta_val, a) ==
    LET current_group == DictGet(internal_grouping_map(a), meta_val)
        hl == a.group_bracket_horizontal_line_length
        new_group == st.previous_group # None /\ current_group # st.previous_group
        x == IF st.previous_group # None THEN st.current_x + a.group_spacing ELSE st.current_x
        gld == IF new_group
               THEN Append(close_last(st.group_label_data, st.x_positions[Len(st.x_positions)] + hl),
                           [group |-> current_group, start_x |-> Some(x - hl), end_x |-> None])
               ELSE IF st.group_label_data = <<>>
               THEN <<[group |-> current_group, start_x |-> Some(x - hl), end_x |-> None]>>
               ELSE st.group_label_data
    IN  [current_x |-> x + bar_step,
         previous_group |-> current_group,
         group_start_x |-> IF new_group THEN x ELSE st.group_start_x,
         group_label_data |-> gld,
         x_positions |-> Append(st.x_positions, x),
         x_labels |-> Append(st.x_labels, meta_val),
         group_member_counts |-> count_up(st.group_member_counts, current_group)]

\* one iteration of the layout loop of create_stacked_barplot
stacked_layout_step(st, meta_val, a) ==
    LET current_group == DictGet(internal_grouping_map(a), meta_val)
        hl == a.group_bracket_horizontal_line_length
        new_group == st.previous_group # None /\ current_group # st.previous_group
        x == IF new_group THEN st.current_x + a.group_spacing ELSE st.current_x
        gld == IF new_group
               THEN Append(close_last(st.group_label_data, st.x_positions[Len(st.x_positions)] + hl),
                           [group |-> current_group, start_x |-> Some(x - hl), end_x |-> None])
               ELSE IF st.group_label_data = <<>>
               THEN <<[group |-> current_group, start_x |-> Some(x - hl), end_x |-> None]>>
               ELSE st.group_label_data
    IN  [current_x |-> x + bar_step,
         previous_group |-> current_group,
         group_start_x |-> IF new_group THEN x ELSE st.group_start_x,
         group_label_data |-> gld,
         x_positions |-> Append(st.x_positions, x),
         x_labels |-> Append(st.x_labels, meta_val),
         group_member_counts |-> count_up(st.group_member_counts, current_group)]

RECURSIVE stacked_layout_loop(_, _, _)
stacked_layout_loop(st, order, a) ==
    IF order = <<>> THEN st
    ELSE stacked_layout_loop(stacked_layout_step(st, Head(order), a), Tail(order), a)

\* a test that fires at every change of group
non_contiguous_any_change(group_sequence) ==
    /\ group_sequence # <<>>
    /\ \E i \in 2..Len(group_sequence) : group_sequence[i] # group_sequence[i - 1]

\* the group_sequence test that guards the non-contiguous-groups warning
non_contiguous(group_sequence) ==
    /\ group_sequence # <<>>
    /\ \E i \in 2..Len(group_sequence) :
          /\ group_sequence[i] # group_sequence[i - 1]
          /\ \E j \in (i + 1)..Len(group_sequence) : group_sequence[j] = group_sequence[i - 1]

\* the layout as the loop leaves it, the last entry not closed
stacked_layout_unclosed(a) ==
    IF Truthy(a.group_by_column)
    THEN stacked_layout_loop(layout_start, final_meta_order(a), a)
    ELSE [layout_start EXCEPT
             !.x_positions = [i \in DOMAIN grouped_index(a) |-> (i - 1) * bar_step],
             !.x_labels = final_meta_order(a)]

\* the layout of the bars: positions, labels, bracket data, member counts
stacked_layout(a) ==
    IF Truthy(a.group_by_column)
    THEN LET st == stacked_layout_loop(layout_start, final_meta_order(a), a)
             hl == a.group_bracket_horizontal_line_length
         IN  IF st.group_label_data # <<>>
             THEN [st EXCEPT !.group_label_data =
                      close_last(st.group_label_data, st.x_positions[Len(st.x_positions)] + hl)]
             ELSE st
    ELSE [layout_start EXCEPT
             !.x_positions = [i \in DOMAIN grouped_index(a) |-> (i - 1) * bar_step],
             !.x_labels = final_meta_order(a)]

\* whether the warning about non-contiguous groups is issued
stacked_warning(a) ==
    /\ Truthy(a.group_by_column)
    /\ ~IsNone(a.meta_order)
    /\ non_contiguous([i \in DOMAIN final_meta_order(a) |->
                          DictGet(internal_grouping_map(a), final_meta_order(a)[i])])

\* dict.get(key, 0)
count_of(counts, key) == IF key \in DOMAIN counts THEN counts[key] ELSE 0

\* brackets decided by the length of the run instead of the member count
stacked_brackets_by_run(a) ==
    IF ~Truthy(a.group_by_column) THEN <<>>
    ELSE LET lay == stacked_layout(a)
             hl == a.group_bracket_horizontal_line_length
             drawn == {i \in DOMAIN lay.group_label_data :
                          Get(lay.group_label_data[i].end_x) - Get(lay.group_label_data[i].start_x)
                             > 2 * hl}
         IN  [j \in DOMAIN Filter([i \in DOMAIN lay.group_label_data |-> i], drawn) |->
                 lay.group_label_data[Filter([i \in DOMAIN lay.group_label_data |-> i], drawn)[j]]]

\* the entries of group_label_data for which the bracket is drawn
stacked_brackets(a) ==
    IF ~Truthy(a.group_by_column) THEN <<>>
    ELSE LET lay == stacked_layout(a)
             drawn == {i \in DOMAIN lay.group_label_data :
                          /\ lay.group_label_data[i].start_x # None
                          /\ lay.group_label_data[i].end_x # None
                          /\ count_of(lay.group_member_counts, lay.group_label_data[i].group) > 1}
         IN  [j \in DOMAIN Filter([i \in DOMAIN lay.group_label_data |-> i], drawn) |->
                 lay.group_label_data[Filter([i \in DOMAIN lay.group_label_data |-> i], drawn)[j]]]

\* the bars drawn by the plotting loop: row i of the reindexed table at
\* x_positions[i]
stacked_bars(a) ==
    LET index == final_meta_order(a)
        lay == stacked_layout(a)
        table == grouped_df_scaled(a)
    IN  [i \in DOMAIN index |->
            [x |-> lay.x_positions[i], meta_val |-> index[i], heights |-> table[index[i]]]]

\* the annotation boxes: for the i-th entry of final_meta_order, its value of
\* boxes_column at x_positions[i]
stacked_boxes(a) ==
    IF ~Truthy(a.boxes_column) THEN <<>>
    ELSE LET index == final_meta_order(a)
             lay == stacked_layout(a)
             meta_to_top_box_value == ToDict(a.dataset, a.meta_column, Get(a.boxes_column))
         IN  [i \in DOMAIN index |->
                 [x |-> lay.x_positions[i], meta_val |-> index[i],
                  box_value |-> DictGet(meta_to_top_box_value, index[i])]]

\* the files written by the export block: output + extension
stacked_files(a) == {<<Get(a.output), ext>> : ext \in {".pdf", ".png", ".svg"}}

\* the result of a call that raised in the validation block
raised_in_validation(a, err) ==
    [fn |-> a.fn, raised |-> err, stage |-> "validation", figure |-> FALSE,
     files |-> {}, returned |-> FALSE]

\* the whole call of create_stacked_barplot
stacked_result(a) ==
    IF stacked_validation(a) # NoError
    THEN raised_in_validation(a, stacked_validation(a))
             @@ [rcParams |-> a.rcParams, dataset |-> a.dataset]
    ELSE [fn |-> a.fn,
          \* output + ".pdf" raises TypeError when output is None
          raised |-> IF IsNone(a.output) THEN Raise("TypeError", "output_is_none") ELSE NoError,
          stage |-> "export",
          figure |-> TRUE,
          files |-> IF IsNone(a.output) THEN {} ELSE stacked_files(a),
          returned |-> ~IsNone(a.output),
          cols_to_plot_y |-> cols_to_plot_y(a),
          df_plot |-> df_plot(a),
          grouped_df |-> grouped_df(a),
          grouped_df_scaled |-> grouped_df_scaled(a),
          sorted_categories |-> sorted_categories(a),
          category_colors_internal_map |-> category_colors_internal_map(a),
          final_colors_for_plotting |-> final_colors_for_plotting(a),
          final_meta_order |-> final_meta_order(a),
          internal_grouping_map |-> IF Truthy(a.group_by_column) THEN internal_grouping_map(a) ELSE <<>>,
          layout |-> stacked_layout(a),
          warned |-> stacked_warning(a),
          brackets |-> stacked_brackets(a),
          bars |-> stacked_bars(a),
          boxes |-> stacked_boxes(a),
          \* plt.rcParams["svg.fonttype"] = "none" before the last savefig
          rcParams |-> IF IsNone(a.output) THEN a.rcParams
                       ELSE [a.rcParams EXCEPT !.svg_fonttype = "none"],
          \* the function works on copies of the table
          dataset |-> a.dataset]

\* the call has not been made yet
NotCalled == [fn |-> "none"]

create_stacked_barplot ==
    /\ args.fn = "create_stacked_barplot"
    /\ res.fn = "none"
    /\ res' = stacked_result(args)
    /\ UNCHANGED args

----------------------------------------------------------------------------
(* create_boxplot (boxplot.py) *)

\* value_column is a column name or a list of column names
value_column_list(a) == a.value_column.cols

\* the first failing check of create_boxplot up to the data preparation
boxplot_validation(a) ==
    IF ~a.dataset.isDataFrame THEN Raise("TypeError", "dataset")
    ELSE IF a.meta_column \notin a.dataset.columns
         THEN Raise("ValueError", "meta_column")
    ELSE IF ~(Range(value_column_list(a)) \subseteq a.dataset.columns)
         THEN Raise("ValueError", "value_column")
    ELSE IF Truthy(a.hue_column) /\ Get(a.hue_column) \notin a.dataset.columns
         THEN Raise("ValueError", "hue_column")
    ELSE IF group_check(a) # NoError THEN group_check(a)
    ELSE IF a.group_position \notin {"bottom", "middle", "top"}
         THEN Raise("ValueError", "group_position")
    ELSE IF meta_order_check(a) # NoError THEN meta_order_check(a)
    \* the names pd.melt generates must not hide a column of the table
    ELSE IF a.value_column.isList /\ "value" \in a.dataset.columns
               /\ "value" \notin Range(value_column_list(a))
         THEN Raise("ValueError", "melt_value_name")
    ELSE IF a.value_column.isList /\ "category" \in a.dataset.columns
               /\ "category" \notin Range(value_column_list(a))
         THEN Raise("ValueError", "melt_category_name")
    ELSE boxes_check(a)

\* final_meta_order of create_boxplot: order of first appearance, or the
\* entries of meta_order present in the data
boxplot_final_meta_order(a) ==
    IF IsNone(a.meta_order) THEN Unique(Column(a.dataset, a.meta_column))
    ELSE Filter(Get(a.meta_order), Range(Column(a.dataset, a.meta_column)))

\* final_hue_order: the hue categories, those of the melted 'category'
\* column when a list of value columns is given without hue_column
final_hue_order(a) ==
    IF Truthy(a.hue_column) THEN Unique(Column(a.dataset, Get(a.hue_column)))
    ELSE IF a.value_column.isList THEN Unique(value_column_list(a))
    ELSE <<>>

box_plots_per_meta_group(a) ==
    IF Truthy(a.hue_column) \/ a.value_column.isList THEN Len(final_hue_order(a)) ELSE 1

\* spacing_between_boxes_in_group = 0.1
spacing_between_boxes_in_group == 2

\* spacing_between_meta_groups = 1.5
spacing_between_meta_groups == 30

total_width_per_meta_group(a) ==
    IF box_plots_per_meta_group(a) = 1 THEN a.box_width
    ELSE box_plots_per_meta_group(a) * a.box_width
         + (box_plots_per_meta_group(a) - 1) * spacing_between_boxes_in_group

boxplot_layout_start ==
    [current_x |-> 0, previous_group |-> None, current_group_members_x_pos |-> <<>>,
     group_label_data_raw |-> <<>>, x_positions_meta |-> <<>>, x_tick_labels |-> <<>>]

\* one iteration of the layout loop of create_boxplot
boxplot_layout_step(st, meta_val, a) ==
    LET current_group == DictGet(internal_grouping_map(a), meta_val)
        new_group == st.previous_group # None /\ current_group # st.previous_group
        x == IF new_group THEN st.current_x + a.group_spacing ELSE st.current_x
        pos == x + total_width_per_meta_group(a) \div 2
    IN  [current_x |-> x + total_width_per_meta_group(a) + spacing_between_meta_groups,
         previous_group |-> current_group,
         current_group_members_x_pos |->
             Append(IF new_group THEN <<>> ELSE st.current_group_members_x_pos, pos),
         group_label_data_raw |->
             IF new_group
             THEN Append(st.group_label_data_raw,
                         [group |-> st.previous_group, x_pos_list |-> st.current_group_members_x_pos])
             ELSE st.group_label_data_raw,
         x_positions_meta |-> Append(st.x_positions_meta, pos),
         x_tick_labels |-> Append(st.x_tick_labels, meta_val)]

RECURSIVE boxplot_layout_loop(_, _, _)
boxplot_layout_loop(st, order, a) ==
    IF order = <<>> THEN st
    ELSE boxplot_layout_loop(boxplot_layout_step(st, Head(order), a), Tail(order), a)

\* the positions without grouping
RECURSIVE ungrouped_positions(_, _, _)
ungrouped_positions(order, current_x, a) ==
    IF order = <<>> THEN <<>>
    ELSE <<current_x + total_width_per_meta_group(a) \div 2>>
         \o ungrouped_positions(Tail(order),
                current_x + total_width_per_meta_group(a) + spacing_between_meta_groups, a)

boxplot_layout(a) ==
    IF Truthy(a.group_by_column)
    THEN LET st == boxplot_layout_loop(boxplot_layout_start, boxplot_final_meta_order(a), a)
         IN  IF st.current_group_members_x_pos # <<>>
             THEN [st EXCEPT !.group_label_data_raw =
                      Append(st.group_label_data_raw,
                             [group |-> st.previous_group,
                              x_pos_list |-> st.current_group_members_x_pos])]
             ELSE st
    ELSE [boxplot_layout_start EXCEPT
             !.x_positions_meta = ungrouped_positions(boxplot_final_meta_order(a), 0, a),
             !.x_tick_labels = boxplot_final_meta_order(a)]

\* group_label_data: (group_name, start_x_bracket, end_x_bracket, should_draw_bracket)
boxplot_group_label_data(a) ==
    LET raw == boxplot_layout(a).group_label_data_raw
        hl == a.group_bracket_horizontal_line_length
    IN  [i \in DOMAIN raw |->
            [group |-> raw[i].group,
             start_x |-> raw[i].x_pos_list[1] - hl,
             end_x |-> raw[i].x_pos_list[Len(raw[i].x_pos_list)] + hl,
             should_draw_bracket |-> Len(raw[i].x_pos_list) > 1]]

\* the entries of group_label_data for which the bracket is drawn
boxplot_brackets(a) ==
    IF ~Truthy(a.group_by_column) THEN <<>>
    ELSE LET gld == boxplot_group_label_data(a)
             idx == Filter([i \in DOMAIN gld |-> i], {i \in DOMAIN gld : gld[i].should_draw_bracket})
         IN  [j \in DOMAIN idx |-> gld[idx[j]]]

boxplot_warning(a) ==
    /\ Truthy(a.group_by_column)
    /\ ~IsNone(a.meta_order)
    /\ non_contiguous([i \in DOMAIN boxplot_final_meta_order(a) |->
                          DictGet(internal_grouping_map(a), boxplot_final_meta_order(a)[i])])

\* the whole call of create_boxplot
boxplot_result(a) ==
    IF boxplot_validation(a) # NoError THEN raised_in_validation(a, boxplot_validation(a))
    ELSE [fn |-> a.fn,
          raised |-> NoError,
          stage |-> "export",
          figure |-> TRUE,
          files |-> IF Truthy(a.output)
                    THEN {<<Get(a.output), ext>> : ext \in {".pdf", ".png"}} ELSE {},
          returned |-> TRUE,
          final_meta_order |-> boxplot_final_meta_order(a),
          internal_grouping_map |-> IF Truthy(a.group_by_column) THEN internal_grouping_map(a) ELSE <<>>,
          layout |-> boxplot_layout(a),
          group_label_data |-> IF Truthy(a.group_by_column) THEN boxplot_group_label_data(a) ELSE <<>>,
          warned |-> boxplot_warning(a),
          brackets |-> boxplot_brackets(a)]

create_boxplot ==
    /\ args.fn = "create_boxplot"
    /\ res.fn = "none"
    /\ res' = boxplot_result(args)
    /\ UNCHANGED args

----------------------------------------------------------------------------
(* ridgeline_from_known_density_plot (ridgeline_from_known_density_plot.py) *)

\* pd.api.types.is_numeric_dtype(dataset[c]): the explored tables hold
\* numbers in x, y, z and labels in the other columns
is_numeric_dtype(c) == c \in {"x", "y", "z"}

\* the validation block without the range check of overlap
ridgeline_validation_without_overlap(a) ==
    IF ~a.dataset.isDataFrame THEN Raise("TypeError", "dataset")
    ELSE IF a.x_column \notin a.dataset.columns THEN Raise("ValueError", "x_column")
    ELSE IF a.density_column \notin a.dataset.columns THEN Raise("ValueError", "density_column")
    ELSE IF a.category_column \notin a.dataset.columns THEN Raise("ValueError", "category_column")
    ELSE IF ~is_numeric_dtype(a.x_column) THEN Raise("TypeError", "x_column_numeric")
    ELSE IF ~is_numeric_dtype(a.density_column) THEN Raise("TypeError", "density_column_numeric")
    ELSE IF /\ ~IsNone(a.category_order)
            /\ ~(Range(Get(a.category_order)) \subseteq Range(Column(a.dataset, a.category_column)))
         THEN Raise("ValueError", "category_order")
    ELSE IF ~IsNone(a.normalization) /\ Get(a.normalization) \notin {"mean", "median"}
         THEN Raise("ValueError", "normalization")
    ELSE NoError

\* the first failing check of the validation block (overlap in twentieths)
ridgeline_validation(a) ==
    IF ~a.dataset.isDataFrame THEN Raise("TypeError", "dataset")
    ELSE IF a.x_column \notin a.dataset.columns THEN Raise("ValueError", "x_column")
    ELSE IF a.density_column \notin a.dataset.columns THEN Raise("ValueError", "density_column")
    ELSE IF a.category_column \notin a.dataset.columns THEN Raise("ValueError", "category_column")
    ELSE IF ~is_numeric_dtype(a.x_column) THEN Raise("TypeError", "x_column_numeric")
    ELSE IF ~is_numeric_dtype(a.density_column) THEN Raise("TypeError", "density_column_numeric")
    ELSE IF ~(0 <= a.overlap /\ a.overlap <= 20) THEN Raise("ValueError", "overlap")
    ELSE IF /\ ~IsNone(a.category_order)
            /\ ~(Range(Get(a.category_order)) \subseteq Range(Column(a.dataset, a.category_column)))
         THEN Raise("ValueError", "category_order")
    ELSE IF ~IsNone(a.normalization) /\ Get(a.normalization) \notin {"mean", "median"}
         THEN Raise("ValueError", "normalization")
    ELSE NoError

\* categories: sorted unique values, or the entries of category_order
ridgeline_categories(a) ==
    IF IsNone(a.category_order) THEN SortedKeys(Column(a.dataset, a.category_column))
    ELSE Filter(Get(a.category_order), Range(Column(a.dataset, a.category_column)))

\* the rows of one (category, x) cell, in row order
ridgeline_cell(a, key) ==
    SelectSeq(a.dataset.rows,
              LAMBDA r : <<r[a.category_column], r[a.x_column]>> = key)

\* the density column after the normalization step: the values of the rows,
\* or one mean / median per (category, x) cell
ridgeline_densities(a) ==
    IF IsNone(a.normalization)
    THEN {Frac(r[a.density_column]) : r \in Range(a.dataset.rows)}
    ELSE {Aggregate(Get(a.normalization),
                    Column([rows |-> ridgeline_cell(a, key)], a.density_column)) :
            key \in {<<r[a.category_column], r[a.x_column]>> : r \in Range(a.dataset.rows)}}

\* dataset[density_column].max()
max_overall_density(a) ==
    CHOOSE m \in ridgeline_densities(a) :
        \A q \in ridgeline_densities(a) : ~FracLess(m, q)

\* the shift without the default of 0.5
vertical_shift_amount_without_default(a) ==
    FracMul(max_overall_density(a), Reduce(20 - a.overlap, 20))

\* the distance between two neighbouring baselines (overlap in twentieths)
vertical_shift_amount(a) ==
    IF ridgeline_densities(a) = {} \/ max_overall_density(a) = Zero
    THEN Reduce(1, 2)
    ELSE FracMul(max_overall_density(a), Reduce(20 - a.overlap, 20))

\* y_shifted - y_kde of the curve of each category, in drawing order
ridgeline_baselines(a) ==
    [i \in DOMAIN ridgeline_categories(a) |-> FracMul(Frac(i - 1), vertical_shift_amount(a))]

\* the whole call of ridgeline_from_known_density_plot
ridgeline_result(a) ==
    IF ridgeline_validation(a) # NoError THEN raised_in_validation(a, ridgeline_validation(a))
    ELSE [fn |-> a.fn,
          raised |-> NoError,
          stage |-> "export",
          figure |-> TRUE,
          files |-> IF Truthy(a.output)
                    THEN {<<Get(a.output), ext>> : ext \in {".pdf", ".png"}} ELSE {},
          returned |-> TRUE,
          categories |-> ridgeline_categories(a),
          baselines |-> ridgeline_baselines(a)]

ridgeline_from_known_density_plot ==
    /\ args.fn = "ridgeline_from_known_density_plot"
    /\ res.fn = "none"
    /\ res' = ridgeline_result(args)
    /\ UNCHANGED args

----------------------------------------------------------------------------
(* create_dodged_barplot (barplot_dodged_plot.py) *)

dodged_validation(a) ==
    IF ~a.dataset.isDataFrame THEN Raise("TypeError", "dataset")
    ELSE IF a.meta_column \notin a.dataset.columns THEN Raise("ValueError", "meta_column")
    ELSE IF ~(Range(a.value_columns) \subseteq a.dataset.columns)
         THEN Raise("ValueError", "value_columns")
    ELSE IF ~(Range(focus_value_list(a)) \subseteq Range(a.value_columns))
         THEN Raise("ValueError", "focus_value")
    ELSE NoError

\* focus_value + ['others'] when some, but not all, value columns are outside
\* focus_value; value_columns otherwise
dodged_cols_to_plot_y(a) ==
    IF others_cols(a) # <<>> /\ Len(others_cols(a)) < Len(a.value_columns)
    THEN focus_value_list(a) \o <<"others">>
    ELSE a.value_columns

\* s[:n]: the first n elements, all of s when it is shorter
Slice(s, n) == SubSeq(s, 1, IF n < Len(s) THEN n ELSE Len(s))

\* colors: a slice of the default palette, and 'gray' for 'others'
dodged_colors(a) ==
    IF others_cols(a) # <<>> /\ Len(others_cols(a)) < Len(a.value_columns)
    THEN Slice(default_colors(a), Len(focus_value_list(a))) \o <<"gray">>
    ELSE Slice(default_colors(a), Len(a.value_columns))

\* the categories whose bars the plotting loop draws: colors[i] raises
\* IndexError at the first category past the end of colors
dodged_drawn(a) ==
    IF Len(dodged_cols_to_plot_y(a)) <= Len(dodged_colors(a))
    THEN Len(dodged_cols_to_plot_y(a)) ELSE Len(dodged_colors(a))

\* the colour of the bars of each drawn category
dodged_bar_colors(a) == [i \in 1..dodged_drawn(a) |-> dodged_colors(a)[i]]

\* the whole call of create_dodged_barplot
dodged_result(a) ==
    IF dodged_validation(a) # NoError THEN raised_in_validation(a, dodged_validation(a))
    ELSE IF dodged_drawn(a) < Len(dodged_cols_to_plot_y(a))
    THEN [fn |-> a.fn,
          raised |-> Raise("IndexError", "colors"),
          stage |-> "plot",
          figure |-> TRUE,
          files |-> {},
          returned |-> FALSE,
          cols_to_plot_y |-> dodged_cols_to_plot_y(a),
          bar_colors |-> dodged_bar_colors(a)]
    ELSE [fn |-> a.fn,
          raised |-> NoError,
          stage |-> "export",
          figure |-> TRUE,
          files |-> IF Truthy(a.output)
                    THEN {<<Get(a.output), ext>> : ext \in {".pdf", ".png"}} ELSE {},
          returned |-> TRUE,
          cols_to_plot_y |-> dodged_cols_to_plot_y(a),
          bar_colors |-> dodged_bar_colors(a)]

create_dodged_barplot ==
    /\ args.fn = "create_dodged_barplot"
    /\ res.fn = "none"
    /\ res' = dodged_result(args)
    /\ UNCHANGED args

----------------------------------------------------------------------------
(* create_stacked_barplot of TEST_barplot_continuous_ha_xtick_label_scale.py *)

\* the first failing check of the validation block; the checks of
\* collapse_focus_values_as (lines 132-143) and of group_by_column (lines
\* 154-164) are those of barplot_stacked_plot.py
TEST_validation(a) ==
    IF ~a.dataset.isDataFrame THEN Raise("TypeError", "dataset")
    ELSE IF a.meta_column \notin a.dataset.columns THEN Raise("ValueError", "meta_column")
    ELSE IF ~(Range(a.value_columns) \subseteq a.dataset.columns)
         THEN Raise("ValueError", "value_columns")
    ELSE IF ~(Range(focus_value_list(a)) \subseteq Range(a.value_columns))
         THEN Raise("ValueError", "focus_value")
    ELSE IF collapse_check(a) # NoError THEN collapse_check(a)
    ELSE IF group_check(a) # NoError THEN group_check(a)
    ELSE IF a.group_position \notin {"bottom", "middle", "top"}
         THEN Raise("ValueError", "group_position")
    ELSE IF a.scaling \notin {"none", "median"} THEN Raise("ValueError", "scaling")
    ELSE NoError

\* the rows of the aggregated table: groupby(meta_column) sorts its keys
TEST_grouped_index(a) == SortedKeys(Column(a.dataset, a.meta_column))

\* numpy's default sort ('quicksort', the kind sort_values asks for) sorts by
\* insertion, which keeps equal keys in their order, as long as a partition
\* spans at most SMALL_QUICKSORT positions past its first; longer arrays are
\* partitioned first, and pandas documents that kind as not stable
SMALL_QUICKSORT == 16

\* all orders of the elements of a set
RECURSIVE Orders(_)
Orders(S) ==
    IF S = {} THEN {<<>>}
    ELSE UNION {{<<x>> \o rest : rest \in Orders(S \ {x})} : x \in S}

\* the orders of labels that are sorted by key, the keys taken in the order
\* of the list keys: labels of equal key in their given order when stable,
\* in any order otherwise
RECURSIVE SortedByKey(_, _, _, _)
SortedByKey(labels, key, keys, stable) ==
    IF keys = <<>> THEN {<<>>}
    ELSE LET members == {l \in Range(labels) : key[l] = Head(keys)}
             first == IF stable THEN {Filter(labels, members)} ELSE Orders(members)
         IN  {f \o rest : f \in first, rest \in SortedByKey(labels, key, Tail(keys), stable)}

\* what group_df_for_sort.sort_values(by='group').index.tolist() can be
TEST_sort_values(a) ==
    LET index == TEST_grouped_index(a)
    IN  SortedByKey(index, internal_grouping_map(a), GroupValues,
                    Len(index) - 1 <= SMALL_QUICKSORT)

\* one iteration of the layout loop: the end of the previous group is
\* taken from current_x and group_spacing
TEST_layout_step(st, meta_val, a) ==
    LET current_group == DictGet(internal_grouping_map(a), meta_val)
        new_group == st.previous_group # None /\ current_group # st.previous_group
        x == IF new_group THEN st.current_x + a.group_spacing ELSE st.current_x
        gld == IF new_group
               THEN Append(close_last(st.group_label_data,
                                      st.current_x - bar_step - a.group_spacing),
                           [group |-> current_group, start_x |-> Some(x), end_x |-> None])
               ELSE IF st.group_label_data = <<>>
               THEN <<[group |-> current_group, start_x |-> Some(x), end_x |-> None]>>
               ELSE st.group_label_data
    IN  [current_x |-> x + bar_step,
         previous_group |-> current_group,
         group_start_x |-> st.group_start_x,
         group_label_data |-> gld,
         x_positions |-> Append(st.x_positions, x),
         x_labels |-> Append(st.x_labels, meta_val),
         group_member_counts |-> count_up(st.group_member_counts, current_group)]

RECURSIVE TEST_layout_loop(_, _, _)
TEST_layout_loop(st, order, a) ==
    IF order = <<>> THEN st
    ELSE TEST_layout_loop(TEST_layout_step(st, Head(order), a), Tail(order), a)

\* the layout of the bars over the axis values in the order sorted_meta_values
TEST_layout(a, sorted_meta_values) ==
    IF Truthy(a.group_by_column)
    THEN LET st == TEST_layout_loop(layout_start, sorted_meta_values, a)
         IN  IF st.group_label_data # <<>>
             THEN [st EXCEPT !.group_label_data =
                      close_last(st.group_label_data, st.x_positions[Len(st.x_positions)])]
             ELSE st
    ELSE [layout_start EXCEPT
             !.x_positions = [i \in DOMAIN TEST_grouped_index(a) |-> (i - 1) * bar_step],
             !.x_labels = TEST_grouped_index(a)]

\* the orders the bars of a call can be laid out in
TEST_bar_orders(a) ==
    IF TEST_validation(a) # NoError THEN {<<>>}
    ELSE IF Truthy(a.group_by_column) THEN TEST_sort_values(a)
    ELSE {TEST_grouped_index(a)}

\* the whole call, with the bars sorted into the order sorted_meta_values
TEST_result(a, sorted_meta_values) ==
    IF TEST_validation(a) # NoError THEN raised_in_validation(a, TEST_validation(a))
    ELSE [fn |-> a.fn,
          raised |-> NoError,
          stage |-> "export",
          figure |-> TRUE,
          files |-> IF Truthy(a.output)
                    THEN {<<Get(a.output), ext>> : ext \in {".pdf", ".png"}} ELSE {},
          returned |-> TRUE,
          grouped_index |-> TEST_grouped_index(a),
          layout |-> TEST_layout(a, sorted_meta_values)]

TEST_create_stacked_barplot ==
    /\ args.fn = "TEST_create_stacked_barplot"
    /\ res.fn = "none"
    /\ \E sorted_meta_values \in TEST_bar_orders(args) :
          res' = TEST_result(args, sorted_meta_values)
    /\ UNCHANGED args


----------------------------------------------------------------------------
(* create_heatmap (heatmap_plot.py): it prints a message and returns None  *)
(* where the other functions raise. min_sample_percentage is a rational.   *)

\* the message of the first failing check of lines 92-125, "none" when all pass
heatmap_validation(a) ==
    IF ~a.df.isDataFrame THEN "df must be a pandas DataFrame"
    ELSE IF a.df.rows = <<>> THEN "DataFrame is empty"
    ELSE IF ~(0 <= a.min_relative_abundance /\ a.min_relative_abundance <= 1)
         THEN "min_relative_abundance must be a float between 0 and 1"
    ELSE IF ~(~FracLess(a.min_sample_percentage, Zero) /\ ~FracLess(One, a.min_sample_percentage))
         THEN "min_sample_percentage must be a float between 0 and 1"
    ELSE IF ~(Range(a.value_columns \o a.metadata_columns) \subseteq a.df.columns)
         THEN "columns are not found in the DataFrame"
    ELSE "none"

\* the test of a column with > in the place of the last >=
meets_abundance_strictly(a, col) ==
    LET samples_meeting_abundance ==
            Cardinality({i \in DOMAIN a.df.rows : a.df.rows[i][col] >= a.min_relative_abundance})
        percentage_of_samples == Reduce(samples_meeting_abundance, Len(a.df.rows))
    IN  FracLess(a.min_sample_percentage, percentage_of_samples)

\* (df[col] >= min_relative_abundance).sum() / num_samples >= min_sample_percentage
meets_abundance(a, col) ==
    LET samples_meeting_abundance ==
            Cardinality({i \in DOMAIN a.df.rows : a.df.rows[i][col] >= a.min_relative_abundance})
        percentage_of_samples == Reduce(samples_meeting_abundance, Len(a.df.rows))
    IN  ~FracLess(percentage_of_samples, a.min_sample_percentage)

filtered_value_columns(a) ==
    Filter(a.value_columns, {c \in Range(a.value_columns) : meets_abundance(a, c)})

\* the value columns that are not all zero
non_zero_value_columns(a) ==
    Filter(filtered_value_columns(a),
           {c \in Range(filtered_value_columns(a)) :
               is_numeric_dtype(c) => \E i \in DOMAIN a.df.rows : a.df.rows[i][c] # 0})

\* value_columns after both filters
heatmap_value_columns(a) ==
    IF a.remove_all_zero THEN non_zero_value_columns(a) ELSE filtered_value_columns(a)

\* the message of the filter that leaves no value column, "none" otherwise
heatmap_filters(a) ==
    IF filtered_value_columns(a) = <<>> THEN "No value columns remain after filtering"
    ELSE IF a.remove_all_zero /\ non_zero_value_columns(a) = <<>>
         THEN "No value columns remain after removing all-zero columns"
    ELSE "none"

\* colors_for_annotation: for every metadata column, the values given a colour
colors_for_annotation(a) ==
    [c \in Range(a.metadata_columns) |-> Range(Column(a.df, c))]

\* df_for_metadata_annotation[valid_metadata_columns]
final_data(a) ==
    [i \in DOMAIN a.df.rows |-> [c \in Range(a.metadata_columns) |-> a.df.rows[i][c]]]

heatmap_files(a) == {<<a.output, ext>> : ext \in {".pdf", ".png", ".svg"}}

\* a call that printed a message and returned None
heatmap_returned_none(a, stage, message) ==
    [fn |-> a.fn, raised |-> NoError, stage |-> stage, figure |-> FALSE, files |-> {},
     returned |-> TRUE, value |-> None, printed |-> message,
     rcParams |-> a.rcParams, df |-> a.df]

\* plt.rcParams after the figure is drawn and saved: the legend font sizes
\* are set when show_legend, svg.fonttype before the last savefig
heatmap_rcParams(a) ==
    IF a.show_legend
    THEN [a.rcParams EXCEPT !.legend_title_fontsize = "5", !.legend_fontsize = "5",
                            !.svg_fonttype = "none"]
    ELSE [a.rcParams EXCEPT !.svg_fonttype = "none"]

\* the whole call of create_heatmap
heatmap_result(a) ==
    IF heatmap_validation(a) # "none"
    THEN heatmap_returned_none(a, "validation", heatmap_validation(a))
    ELSE IF heatmap_filters(a) # "none"
    THEN heatmap_returned_none(a, "filter", heatmap_filters(a))
    ELSE IF a.metadata_columns = <<>>
    \* valid_metadata_columns is assigned only when metadata_columns is not
    \* empty: reading it after the files are saved raises UnboundLocalError
    THEN [fn |-> a.fn, raised |-> Raise("UnboundLocalError", "valid_metadata_columns"),
          stage |-> "return", figure |-> TRUE, files |-> heatmap_files(a),
          returned |-> FALSE, value |-> None, printed |-> "No metadata columns provided",
          value_columns |-> heatmap_value_columns(a),
          rcParams |-> heatmap_rcParams(a), df |-> a.df]
    ELSE [fn |-> a.fn, raised |-> NoError, stage |-> "return", figure |-> TRUE,
          files |-> heatmap_files(a), returned |-> TRUE,
          value |-> Some([heatmap |-> heatmap_value_columns(a),
                          final_data |-> final_data(a),
                          final_color |-> colors_for_annotation(a)]),
          printed |-> "none",
          value_columns |-> heatmap_value_columns(a),
          rcParams |-> heatmap_rcParams(a), df |-> a.df]

create_heatmap ==
    /\ args.fn = "create_heatmap"
    /\ res.fn = "none"
    /\ res' = heatmap_result(args)
    /\ UNCHANGED args

----------------------------------------------------------------------------
(* The explored calls *)

\* all lists over a set, of length at most n
RECURSIVE ListsUpTo(_, _)
ListsUpTo(S, n) ==
    IF n = 0 THEN {<<>>}
    ELSE LET shorter == ListsUpTo(S, n - 1)
         IN  shorter \cup {Append(l, v) : l \in shorter, v \in S}

TablesOf(rowSet, n) == UNION {[1..k -> rowSet] : k \in 1..n}

AllColumns == {"site", "grp", "box", "x", "y", "z"}

DataFrame(rows) == [isDataFrame |-> TRUE, columns |-> AllColumns, rows |-> rows]

\* plt.rcParams before the call, as far as the functions read or write it
\* (the palette is cut to two colours)
rcParamsDefault ==
    [axes_prop_cycle |-> <<"C0", "C1">>,
     svg_fonttype |-> "path",
     legend_fontsize |-> "medium",
     legend_title_fontsize |-> "None"]

\* a call of create_stacked_barplot with every option at the value the
\* explored calls do not vary
StackedCall(dataset) ==
    [fn |-> "create_stacked_barplot",
     dataset |-> dataset,
     meta_column |-> "site",
     value_columns |-> <<"x", "y", "z">>,
     value_order |-> "default",
     meta_order |-> None,
     output |-> Some("out"),
     scaling |-> "none",
     normalize_data |-> FALSE,
     focus_value |-> None,
     collapse_focus_values_as |-> None,
     collapsed_color |-> None,
     color_map |-> None,
     rcParams |-> rcParamsDefault,
     boxes_column |-> None,
     group_by_column |-> None,
     group_spacing |-> 0,
     group_bracket_horizontal_line_length |-> 10,
     group_position |-> "bottom"]

\* Aggregation: tables of up to MaxRows rows on two axis values, so that an
\* axis value can have several rows, with the counts of two value columns
AggTables ==
    {DataFrame(t) : t \in TablesOf([site : {"A", "B"}, grp : {"G1"}, box : {"b1"},
                                    x : 0..MaxValue, y : 0..MaxValue, z : {0}], MaxRows)}

AggCalls ==
    {[StackedCall(d) EXCEPT !.value_columns = <<"x", "y">>, !.normalize_data = TRUE,
                            !.scaling = sc, !.focus_value = fv,
                            !.collapse_focus_values_as = cf] :
        d \in AggTables, sc \in {"none", "median", "mean"},
        fv \in {None, Some(<<"x">>), Some(<<"y", "x">>)},
        cf \in {None, Some("focus")}}

InitAgg == args \in AggCalls /\ res = NotCalled

SpecAgg == InitAgg /\ [][create_stacked_barplot]_vars

\* Category order: tables of two bars, one row each, with three value
\* columns; every focus list, collapse name and value order
OrderTables ==
    {DataFrame(<<ra, rb>>) :
        ra \in [site : {"A"}, grp : {"G1"}, box : {"b1"},
                x : 0..MaxValue, y : 0..MaxValue, z : 0..MaxValue],
        rb \in [site : {"B"}, grp : {"G1"}, box : {"b1"},
                x : 0..MaxValue, y : 0..MaxValue, z : 0..MaxValue]}

FocusLists == {l \in ListsUpTo({"x", "y", "z"}, 2) : NoDup(l)} \cup {<<"x", "y", "z">>}

OrderCalls ==
    {[StackedCall(d) EXCEPT !.value_order = vo, !.normalize_data = nd,
                            !.focus_value = IF fv = <<>> THEN None ELSE Some(fv),
                            !.collapse_focus_values_as = cf] :
        d \in OrderTables, vo \in {"default", "median_descending", "median_ascending"},
        nd \in BOOLEAN, fv \in FocusLists, cf \in {None, Some("focus"), Some("x")}}

InitOrder == args \in OrderCalls /\ res = NotCalled

SpecOrder == InitOrder /\ [][create_stacked_barplot]_vars

\* a call of create_boxplot with every option at the value the explored
\* calls do not vary
BoxplotCall(dataset) ==
    [fn |-> "create_boxplot",
     dataset |-> dataset,
     meta_column |-> "site",
     value_column |-> [isList |-> FALSE, cols |-> <<"x">>],
     hue_column |-> None,
     meta_order |-> None,
     output |-> Some("out"),
     box_width |-> 12,
     boxes_column |-> None,
     group_by_column |-> None,
     group_spacing |-> 0,
     group_bracket_horizontal_line_length |-> 10,
     group_position |-> "bottom"]

\* Layout: tables of up to MaxLayoutRows rows over three axis values and two
\* groups (an axis value may so have rows of both groups), grouped by 'grp'
\* or not grouped, with no meta_order or with any order of the three axis values
LayoutAxis == {"A", "B", "C"}

LayoutTables ==
    {DataFrame(t) : t \in TablesOf([site : LayoutAxis, grp : {"G1", "G2"},
                                    box : {"b1"}, x : {1}, y : {1}, z : {1}], MaxLayoutRows)}

AxisOrders == {l \in ListsUpTo(LayoutAxis, Cardinality(LayoutAxis)) :
                  Len(l) = Cardinality(LayoutAxis) /\ NoDup(l)}

LayoutCalls ==
    {[c EXCEPT !.group_by_column = gb, !.meta_order = mo, !.group_spacing = 10 * gs] :
        c \in {StackedCall(d) : d \in LayoutTables} \cup {BoxplotCall(d) : d \in LayoutTables},
        gb \in {None, Some("grp")},
        mo \in {None} \cup {Some(l) : l \in AxisOrders},
        gs \in 0..MaxSpacing}

InitLayout == args \in LayoutCalls /\ res = NotCalled

NextLayout == create_stacked_barplot \/ create_boxplot

SpecLayout == InitLayout /\ [][NextLayout]_vars

\* Colours: one-row tables; every focus list (None and [] too) and collapse name, with and
\* without collapsed_color, several colour maps, palettes of one and two
\* colours, two value orders
ColourTables ==
    {DataFrame(<<r>>) : r \in [site : {"A"}, grp : {"G1"}, box : {"b1"},
                               x : 0..MaxValue, y : 0..MaxValue, z : 0..MaxValue]}

ColourMaps ==
    {None,
     Some([c \in {"x"} |-> "blue"]),
     Some([c \in {"y", "others"} |-> IF c = "y" THEN "blue" ELSE "black"]),
     Some([c \in {"focus"} |-> "green"])}

ColourCalls ==
    {[StackedCall(d) EXCEPT !.value_order = vo,
                            !.focus_value = fv,
                            !.collapse_focus_values_as = cf,
                            !.collapsed_color = cc,
                            !.color_map = cm,
                            !.rcParams.axes_prop_cycle = pal] :
        d \in ColourTables, vo \in {"default", "median_descending"},
        fv \in {None} \cup {Some(l) : l \in FocusLists}, cf \in {None, Some("focus"), Some("x")},
        cc \in {None, Some("red")}, cm \in ColourMaps,
        pal \in {<<"C0">>, <<"C0", "C1">>}}

InitColour == args \in ColourCalls /\ res = NotCalled

SpecColour == InitColour /\ [][create_stacked_barplot]_vars

\* Axis order: tables of up to MaxLayoutRows rows over three axis values,
\* the annotation of an axis value fixed by it; meta_order any list of up to
\* three entries over the axis values and one more label, so with missing,
\* repeated and superfluous entries; with and without grouping and boxes
MetaOrderTables ==
    {DataFrame(t) :
        t \in TablesOf({[site |-> v, grp |-> IF v = "B" THEN "G2" ELSE "G1",
                         box |-> IF v = "A" THEN "b1" ELSE "b2", x |-> n, y |-> 1, z |-> 0] :
                           v \in LayoutAxis, n \in {1}}, MaxLayoutRows)}

MetaOrders == ListsUpTo(LayoutAxis \cup {"D"}, Cardinality(LayoutAxis))

MetaOrderCalls ==
    {[StackedCall(d) EXCEPT !.meta_order = Some(mo), !.group_by_column = gb, !.boxes_column = bx] :
        d \in MetaOrderTables, mo \in MetaOrders,
        gb \in {None, Some("grp")}, bx \in {None, Some("box")}}

InitMetaOrder == args \in MetaOrderCalls /\ res = NotCalled

SpecMetaOrder == InitMetaOrder /\ [][create_stacked_barplot]_vars

\* a call of the TEST_ variant with every option at the value the explored
\* calls do not vary
TESTCall(dataset) ==
    [fn |-> "TEST_create_stacked_barplot",
     dataset |-> dataset,
     meta_column |-> "site",
     value_columns |-> <<"x", "y", "z">>,
     focus_value |-> None,
     collapse_focus_values_as |-> None,
     group_by_column |-> Some("grp"),
     group_spacing |-> 0,
     group_position |-> "bottom",
     scaling |-> "none",
     output |-> Some("out")]

\* Sorting: one row per axis value for the first n axis values, the groups
\* dealt out in turn over g groups (interleaved) or in blocks of n / g
\* (contiguous), starting from the group at offset s
SortTable(n, g, s, interleaved) ==
    DataFrame([i \in 1..n |->
        [site |-> AxisValues[i],
         grp |-> GroupValues[(((IF interleaved THEN i - 1 ELSE (i - 1) \div (n \div g)) + s) % g) + 1],
         box |-> "b1", x |-> 1, y |-> 1, z |-> 1]])

\* four bars in two groups, and as many bars as take numpy's sort past its
\* insertion sort, in groups of two
SortTables ==
    {SortTable(4, 2, s, il) : s \in 0..1, il \in BOOLEAN}
        \cup {SortTable(SMALL_QUICKSORT + 2, (SMALL_QUICKSORT + 2) \div 2, s, il) :
                 s \in 0..2, il \in BOOLEAN}

SortCalls ==
    {[c EXCEPT !.group_spacing = 10 * gs] :
        c \in {TESTCall(d) : d \in SortTables}
                 \cup {[StackedCall(d) EXCEPT !.group_by_column = Some("grp"), !.meta_order = mo] :
                          d \in SortTables,
                          mo \in {None, Some(Reverse(AxisValues))}},
        gs \in 0..MaxSpacing}

InitSort == args \in SortCalls /\ res = NotCalled

NextSort == create_stacked_barplot \/ TEST_create_stacked_barplot

SpecSort == InitSort /\ [][NextSort]_vars

\* Validation: every function called on a table that is not a DataFrame, on
\* a table with all its columns or on one with a column missing, with valid
\* and invalid options

\* a DataFrame with the given columns only
DataFrameWith(cols, rows) ==
    [isDataFrame |-> TRUE, columns |-> cols,
     rows |-> [i \in DOMAIN rows |-> [c \in cols |-> rows[i][c]]]]

\* an object that is not a DataFrame
NotATable == [isDataFrame |-> FALSE, columns |-> {}, rows |-> <<>>]

ValidRows ==
    <<[site |-> "A", grp |-> "G1", box |-> "b1", x |-> 1, y |-> 0, z |-> 1],
      [site |-> "B", grp |-> "G2", box |-> "b2", x |-> 0, y |-> 1, z |-> 1]>>

ColumnSets == {AllColumns} \cup {AllColumns \ {c} : c \in AllColumns}

ValidDatasets == {NotATable} \cup {DataFrameWith(cols, ValidRows) : cols \in ColumnSets}

Optional(S) == {None} \cup {Some(v) : v \in S}

\* the enumerated options: all valid, or one of them outside its values
StackedOptions ==
    {[scaling |-> "none", value_order |-> "default", group_position |-> "bottom"],
     [scaling |-> "sum", value_order |-> "default", group_position |-> "bottom"],
     [scaling |-> "none", value_order |-> "descending", group_position |-> "bottom"],
     [scaling |-> "none", value_order |-> "default", group_position |-> "left"]}

StackedValidCalls ==
    {[StackedCall(d) EXCEPT !.group_by_column = gb, !.boxes_column = bx,
                            !.collapse_focus_values_as = cf, !.focus_value = fv,
                            !.scaling = o.scaling, !.value_order = o.value_order,
                            !.group_position = o.group_position, !.output = out] :
        d \in ValidDatasets, gb \in Optional({"grp"}), bx \in Optional({"box"}),
        out \in Optional({"out"}),
        cf \in Optional({"others", "grp", "focus", "x"}),
        fv \in Optional({<<>>, <<"x">>}), o \in StackedOptions}

BoxplotValidCalls ==
    {[BoxplotCall(d) EXCEPT !.value_column = vc, !.hue_column = hue,
                            !.group_by_column = gb, !.boxes_column = bx,
                            !.group_position = gp] :
        d \in ValidDatasets,
        vc \in {[isList |-> FALSE, cols |-> <<"x">>], [isList |-> TRUE, cols |-> <<"x", "y">>],
                [isList |-> FALSE, cols |-> <<"w">>]},
        hue \in Optional({"grp"}), gb \in Optional({"grp"}), bx \in Optional({"box"}),
        gp \in {"bottom", "left"}}

RidgelineValidCalls ==
    [fn : {"ridgeline_from_known_density_plot"},
     dataset : ValidDatasets,
     x_column : {"x", "site"},
     density_column : {"y"},
     category_column : {"site"},
     overlap : {0, 10, 20, 30},
     category_order : Optional({<<"B", "A">>, <<"A", "C">>}),
     normalization : Optional({"mean", "max"}),
     output : Optional({"out"})]

DodgedValidCalls ==
    [fn : {"create_dodged_barplot"},
     dataset : ValidDatasets,
     meta_column : {"site"},
     value_columns : {<<"x", "y", "z">>},
     focus_value : Optional({<<"x">>, <<"w">>, <<"x", "y", "z">>}),
     rcParams : {[rcParamsDefault EXCEPT !.axes_prop_cycle = <<"C0", "C1", "C2">>]},
     output : Optional({"out"})]

TESTValidCalls ==
    [fn : {"TEST_create_stacked_barplot"},
     dataset : ValidDatasets,
     meta_column : {"site"},
     value_columns : {<<"x", "y", "z">>},
     focus_value : Optional({<<>>, <<"x">>}),
     collapse_focus_values_as : Optional({"others", "grp", "focus"}),
     group_by_column : Optional({"grp"}),
     group_spacing : {10},
     group_position : {"bottom", "left"},
     scaling : {"none", "median", "mean"},
     output : Optional({"out"})]

\* tables of create_heatmap: up to MaxRows samples, possibly none, with the
\* abundances of x varying and those of y all zero
HeatTables ==
    {<<>>} \cup TablesOf([site : {"A"}, grp : {"G1"}, box : {"b1"},
                          x : 0..MaxValue, y : {0}, z : {1}], MaxRows)

HeatDatasets ==
    {NotATable} \cup {DataFrameWith(cols, t) :
                         cols \in {AllColumns, AllColumns \ {"x"}, AllColumns \ {"grp"}},
                         t \in HeatTables}

HeatmapCalls ==
    [fn : {"create_heatmap"},
     df : HeatDatasets,
     value_columns : {<<>>, <<"x">>, <<"x", "y">>, <<"y", "x">>},
     metadata_columns : {<<>>, <<"grp">>},
     output : {"output/"},
     min_relative_abundance : {0, 1, 2},
     min_sample_percentage : {Zero, Reduce(1, 2), One, Reduce(3, 2)},
     remove_all_zero : BOOLEAN,
     show_legend : BOOLEAN,
     rcParams : {rcParamsDefault}]

ValidCalls ==
    StackedValidCalls \cup BoxplotValidCalls \cup RidgelineValidCalls
       \cup DodgedValidCalls \cup TESTValidCalls \cup HeatmapCalls

InitValid == args \in ValidCalls /\ res = NotCalled

NextValid ==
    \/ create_stacked_barplot
    \/ create_boxplot
    \/ ridgeline_from_known_density_plot
    \/ create_dodged_barplot
    \/ TEST_create_stacked_barplot
    \/ create_heatmap

SpecValid == InitValid /\ [][NextValid]_vars

\* Ridgeline: curves of up to three categories, densities that may be zero
\* or negative, every overlap in steps of a half

MinDensity == 0 - 1

RidgeRows == [site : LayoutAxis, x : {0, 1}, y : MinDensity..MaxValue]

RidgeCalls ==
    [fn : {"ridgeline_from_known_density_plot"},
     dataset : {DataFrameWith({"site", "x", "y"}, rows) : rows \in TablesOf(RidgeRows, MaxRows)},
     x_column : {"x"},
     density_column : {"y"},
     category_column : {"site"},
     overlap : {0 - 10, 0, 10, 20, 30},
     category_order : Optional({<<"B", "A">>, <<"C", "A", "B">>}),
     normalization : Optional({"mean", "median"}),
     output : {None}]

InitRidge == args \in RidgeCalls /\ res = NotCalled

SpecRidge == InitRidge /\ [][ridgeline_from_known_density_plot]_vars

\* Dodged bars: every list of value columns and of focus columns over three
\* columns, with palettes of two and of three colours

DodgedColumns == {"x", "y", "z"}

DodgedCalls ==
    [fn : {"create_dodged_barplot"},
     dataset : {DataFrame(ValidRows)},
     meta_column : {"site"},
     value_columns : {l \in ListsUpTo(DodgedColumns, 3) : l # <<>> /\ NoDup(l)},
     focus_value : Optional(ListsUpTo(DodgedColumns, 3)),
     rcParams : {[rcParamsDefault EXCEPT !.axes_prop_cycle = p] :
                    p \in {<<"C0", "C1">>, <<"C0", "C1", "C2">>}},
     output : Optional({"out"})]

InitDodged == args \in DodgedCalls /\ res = NotCalled

SpecDodged == InitDodged /\ [][create_dodged_barplot]_vars

----------------------------------------------------------------------------
(* Properties *)

\* the call of create_stacked_barplot got past validation
StackedRan == res.fn = "create_stacked_barplot" /\ res.stage = "export"

PositionsOf(order, c) == {i \in DOMAIN order : order[i] = c}

\* C2: for every value_order and every focus/collapse configuration, a
\* category named 'others' among the plotted categories is the last element
\* of sorted_categories and appears exactly once.
C2_OthersLast ==
    (StackedRan /\ "others" \in Range(res.cols_to_plot_y)) =>
        PositionsOf(res.sorted_categories, "others") = {Len(res.sorted_categories)}

\* a median-ordered call in which 'others' has the largest median, so that
\* the sort alone would have put it first
C2_Witness ==
    /\ StackedRan /\ args.value_order = "median_descending"
    /\ Len(res.sorted_categories) = 3
    /\ res.sorted_categories[3] = "others"
    /\ \A c \in Range(res.cols_to_plot_y) \ {"others"} :
          FracLess(median_contributions(args)[c], median_contributions(args)["others"])

\* C10: with value_order='default' the plotted categories keep the relative
\* order they have in value_columns, for every focus_value, followed by
\* 'others' if present.
C10_DefaultOrderFollowsValueColumns ==
    (StackedRan /\ args.value_order = "default") =>
        /\ Filter(res.sorted_categories, Range(args.value_columns))
              = Filter(args.value_columns, Range(res.sorted_categories))
        /\ "others" \in Range(res.cols_to_plot_y) =>
              res.sorted_categories[Len(res.sorted_categories)] = "others"

\* a call with group_by_column got past validation
GroupedRan(fn) == res.fn = fn /\ res.stage = "export" /\ Truthy(args.group_by_column)

\* the number of bars (axis values of the final order) of a group
MemberCount(g) ==
    Cardinality({i \in DOMAIN res.final_meta_order :
                    res.internal_grouping_map[res.final_meta_order[i]] = g})

BarGroups == {res.internal_grouping_map[res.final_meta_order[i]] : i \in DOMAIN res.final_meta_order}

BracketDrawnFor(g) == \E i \in DOMAIN res.brackets : res.brackets[i].group = Some(g)

\* the groups of the bars from left to right
GroupSequence == [i \in DOMAIN res.final_meta_order |->
                     res.internal_grouping_map[res.final_meta_order[i]]]

\* some group comes back after a bar of another group
Interleaved ==
    \E i, j, k \in DOMAIN GroupSequence :
        i < j /\ j < k /\ GroupSequence[i] = GroupSequence[k] /\ GroupSequence[i] # GroupSequence[j]

\* C3: in create_stacked_barplot with group_by_column, for every final bar
\* order, a bracket is drawn for a group if and only if the group has more
\* than one member bar.
C3_StackedBracketIffSeveralMembers ==
    GroupedRan("create_stacked_barplot") =>
        \A g \in BarGroups : BracketDrawnFor(g) <=> MemberCount(g) > 1

\* bars whose groups interleave: a group of two bars split by a group of one
C3_Witness ==
    /\ GroupedRan("create_stacked_barplot")
    /\ Interleaved
    /\ \E g \in BarGroups : MemberCount(g) = 2 /\ BracketDrawnFor(g)
    /\ \E g \in BarGroups : MemberCount(g) = 1 /\ ~BracketDrawnFor(g)

\* C4: in create_boxplot with group_by_column, for every final_meta_order,
\* interleaving ones included, a bracket is drawn for a group if and only if
\* the group has more than one member axis value.
C4_BoxplotBracketIffSeveralMembers ==
    GroupedRan("create_boxplot") =>
        \A g \in BarGroups : BracketDrawnFor(g) <=> MemberCount(g) > 1

\* some axis value has rows of two different groups
GroupConflict ==
    \E i, j \in DOMAIN args.dataset.rows :
        /\ args.dataset.rows[i][args.meta_column] = args.dataset.rows[j][args.meta_column]
        /\ args.dataset.rows[i][Get(args.group_by_column)]
              # args.dataset.rows[j][Get(args.group_by_column)]

\* C8: in create_stacked_barplot and create_boxplot with group_by_column,
\* validation raises ValueError if and only if some axis value occurs in rows
\* with two or more distinct group values; whenever layout runs, the
\* axis-to-group map gives every axis value the group shared by all its rows.
C8_GroupConsistency ==
    (res.fn \in {"create_stacked_barplot", "create_boxplot"} /\ Truthy(args.group_by_column)) =>
        /\ (res.stage = "validation" /\ res.raised.exc = "ValueError") <=> GroupConflict
        /\ res.stage = "export" =>
              \A i \in DOMAIN args.dataset.rows :
                  res.internal_grouping_map[args.dataset.rows[i][args.meta_column]]
                     = args.dataset.rows[i][Get(args.group_by_column)]

\* a rejected table whose conflicting rows are not neighbours
C8_Witness ==
    /\ res.fn = "create_boxplot"
    /\ res.raised = Raise("ValueError", "group_consistency")
    /\ Len(args.dataset.rows) = 3
    /\ args.dataset.rows[1].site = args.dataset.rows[3].site
    /\ args.dataset.rows[1].grp # args.dataset.rows[3].grp
    /\ args.dataset.rows[2].site # args.dataset.rows[1].site

\* the table a call is given
TableOf(a) == IF a.fn = "create_heatmap" THEN a.df ELSE a.dataset

NamedBy(o) == IF Truthy(o) THEN {Get(o)} ELSE {}

\* the columns a call names
ReferencedColumns(a) ==
    CASE a.fn = "create_stacked_barplot" ->
            {a.meta_column} \cup Range(a.value_columns) \cup NamedBy(a.group_by_column)
               \cup NamedBy(a.boxes_column)
      [] a.fn = "create_boxplot" ->
            {a.meta_column} \cup Range(a.value_column.cols) \cup NamedBy(a.hue_column)
               \cup NamedBy(a.group_by_column) \cup NamedBy(a.boxes_column)
      [] a.fn = "ridgeline_from_known_density_plot" ->
            {a.x_column, a.density_column, a.category_column}
      [] a.fn = "create_dodged_barplot" -> {a.meta_column} \cup Range(a.value_columns)
      [] a.fn = "TEST_create_stacked_barplot" ->
            {a.meta_column} \cup Range(a.value_columns) \cup NamedBy(a.group_by_column)
      [] a.fn = "create_heatmap" -> Range(a.value_columns) \cup Range(a.metadata_columns)

\* a column named by the call is absent from the table
MissingColumn(a) ==
    TableOf(a).isDataFrame /\ ~(ReferencedColumns(a) \subseteq TableOf(a).columns)

Positions == {"bottom", "middle", "top"}

\* an option of the call is outside its allowed values
OptionOutOfRange(a) ==
    CASE a.fn = "create_stacked_barplot" ->
            \/ a.scaling \notin {"none", "median", "mean"}
            \/ a.value_order \notin {"default", "median_descending", "median_ascending"}
            \/ a.group_position \notin Positions
      [] a.fn = "create_boxplot" -> a.group_position \notin Positions
      [] a.fn = "ridgeline_from_known_density_plot" ->
            \/ a.overlap < 0 \/ a.overlap > 20
            \/ a.normalization \notin {None, Some("mean"), Some("median")}
      [] a.fn = "create_dodged_barplot" -> FALSE
      [] a.fn = "TEST_create_stacked_barplot" ->
            a.scaling \notin {"none", "median"} \/ a.group_position \notin Positions
      [] a.fn = "create_heatmap" ->
            \/ a.min_relative_abundance < 0 \/ a.min_relative_abundance > 1
            \/ FracLess(a.min_sample_percentage, Zero) \/ FracLess(One, a.min_sample_percentage)

InvalidInput(a) == ~TableOf(a).isDataFrame \/ MissingColumn(a) \/ OptionOutOfRange(a)

Called == res.fn # "none"

\* the call raised in validation: nothing was drawn, saved or returned
RejectedUpFront ==
    /\ res.raised # NoError
    /\ res.stage = "validation"
    /\ ~res.figure
    /\ res.files = {}
    /\ ~res.returned

\* C5: in create_stacked_barplot, create_boxplot and
\* ridgeline_from_known_density_plot, a call naming a column that is absent
\* from the table raises ValueError before any figure is created and before
\* any file is written; no figure or file precedes any validation raise.
C5_MissingColumnRaisesFirst ==
    res.fn \in {"create_stacked_barplot", "create_boxplot", "ridgeline_from_known_density_plot"} =>
        /\ MissingColumn(args) => (RejectedUpFront /\ res.raised.exc = "ValueError")
        /\ res.stage = "validation" => (~res.figure /\ res.files = {})

\* boxes_column, checked last, is the only column missing
C5_Witness ==
    /\ res.fn = "create_stacked_barplot"
    /\ args.dataset.columns = AllColumns \ {"box"}
    /\ args.boxes_column = Some("box")
    /\ res.raised = Raise("ValueError", "boxes_column")
    /\ ~res.figure /\ res.files = {}

\* C6 as stated: every plotting function, create_heatmap included, raises on
\* an invalid input (wrong table type, missing column, option out of range)
\* and neither returns nor produces a partial result.
C6_EveryFunctionRaises == (Called /\ InvalidInput(args)) => RejectedUpFront

\* C6 amended: every plotting function other than create_heatmap raises on
\* an invalid input before anything is drawn, saved or returned;
\* create_heatmap prints a message and returns None, with no figure or file.
C6_InvalidInputRejected ==
    (Called /\ InvalidInput(args)) =>
        IF res.fn = "create_heatmap"
        THEN /\ res.raised = NoError /\ res.returned /\ res.value = None
             /\ res.printed # "none" /\ ~res.figure /\ res.files = {}
        ELSE RejectedUpFront

\* an overlap above 1 is the only invalid input of a ridgeline call
C6_Witness ==
    /\ res.fn = "ridgeline_from_known_density_plot"
    /\ ~MissingColumn(args) /\ args.dataset.isDataFrame
    /\ args.x_column = "x"
    /\ args.overlap > 20
    /\ res.raised = Raise("ValueError", "overlap")
    /\ ~res.returned

\* the value columns that pass the abundance filter and, when
\* remove_all_zero is set, are not all zero
Remaining(a) ==
    {c \in Range(a.value_columns) :
        /\ Cardinality({i \in DOMAIN a.df.rows : a.df.rows[i][c] >= a.min_relative_abundance})
              * a.min_sample_percentage.d >= a.min_sample_percentage.n * Len(a.df.rows)
        /\ a.remove_all_zero => \E i \in DOMAIN a.df.rows : a.df.rows[i][c] # 0}

\* C7: create_heatmap returns None, without figure or file, when the
\* DataFrame is empty, a value or metadata column is missing, or no value
\* column remains after the filters; every other accepted call returns the
\* (heatmap, metadata table, colour map) triple.
C7_HeatmapNoneOrTriple ==
    (res.fn = "create_heatmap" /\ args.df.isDataFrame /\ ~OptionOutOfRange(args)) =>
        IF args.df.rows = <<>> \/ MissingColumn(args) \/ Remaining(args) = {}
        THEN /\ res.returned /\ res.value = None /\ ~res.figure /\ res.files = {}
        ELSE /\ res.returned /\ res.value # None

\* C9: in create_stacked_barplot, collapse_focus_values_as is rejected in
\* validation, before any aggregation, when it is 'others', when it is a
\* column of the table that is neither a value column nor the axis column,
\* and when focus_value is empty.
C9_CollapseNameCollisions ==
    (/\ res.fn = "create_stacked_barplot"
     /\ ~IsNone(args.collapse_focus_values_as)
     /\ \/ Get(args.collapse_focus_values_as) = "others"
        \/ /\ Get(args.collapse_focus_values_as) \in args.dataset.columns
           /\ Get(args.collapse_focus_values_as) \notin Range(args.value_columns)
           /\ Get(args.collapse_focus_values_as) # args.meta_column
        \/ args.focus_value \in {None, Some(<<>>)}) =>
        /\ RejectedUpFront
        /\ "grouped_df" \notin DOMAIN res
        /\ args.dataset.isDataFrame => res.raised.exc = "ValueError"

\* the name 'others' with a non-empty focus on an otherwise valid call
C9_Witness ==
    /\ res.fn = "create_stacked_barplot"
    /\ args.collapse_focus_values_as = Some("others")
    /\ args.focus_value = Some(<<"x">>)
    /\ res.raised = Raise("ValueError", "collapse_named_others")
    /\ ~res.figure

\* the bars of the final table, in sorted order of the axis values
BarsOf(table) == Filter(AxisValues, DOMAIN table)

\* the median of category c over all bars of the final table
FinalMedian(c) ==
    MedianFracs([i \in DOMAIN BarsOf(res.grouped_df_scaled) |->
                    res.grouped_df_scaled[BarsOf(res.grouped_df_scaled)[i]][c]])

\* C11: with value_order 'median_descending' (resp. 'median_ascending') the
\* plotting order is a permutation of the plotted categories in which, of any
\* two categories other than 'others', the earlier one has a median over the
\* bars of the final table that is >= (resp. <=) the later one's.
C11_MedianOrder ==
    (StackedRan /\ args.value_order \in {"median_descending", "median_ascending"}) =>
        /\ Len(res.sorted_categories) = Len(res.cols_to_plot_y)
        /\ Range(res.sorted_categories) = Range(res.cols_to_plot_y)
        /\ NoDup(res.sorted_categories)
        /\ \A i, j \in DOMAIN res.sorted_categories :
              (i < j /\ res.sorted_categories[i] # "others" /\ res.sorted_categories[j] # "others") =>
                  IF args.value_order = "median_descending"
                  THEN ~FracLess(FinalMedian(res.sorted_categories[i]),
                                 FinalMedian(res.sorted_categories[j]))
                  ELSE ~FracLess(FinalMedian(res.sorted_categories[j]),
                                 FinalMedian(res.sorted_categories[i]))

\* three categories with three different medians, sorted against the order
\* of value_columns
C11_Witness ==
    /\ StackedRan
    /\ args.value_order = "median_descending"
    /\ res.sorted_categories = <<"z", "x", "y">>
    /\ FracLess(FinalMedian("y"), FinalMedian("x"))
    /\ FracLess(FinalMedian("x"), FinalMedian("z"))

\* the value of plotted category c in one row of the input table
CategoryValue(a, row, c) ==
    LET focus == IF IsNone(a.focus_value) THEN <<>> ELSE Get(a.focus_value)
        rest == {v \in Range(a.value_columns) : v \notin Range(focus)}
        Total(S) == SumSeq([i \in DOMAIN Filter(a.value_columns, S) |->
                               row[Filter(a.value_columns, S)[i]]])
    IN  IF c = "others" THEN Total(rest)
        ELSE IF a.collapse_focus_values_as = Some(c) THEN Total(Range(focus))
        ELSE row[c]

\* the sum of category c over all rows with axis value k
SumOver(a, k, c) ==
    SumSeq([i \in DOMAIN a.dataset.rows |->
               IF a.dataset.rows[i][a.meta_column] = k
               THEN CategoryValue(a, a.dataset.rows[i], c) ELSE 0])

\* the sum of all plotted categories over all rows with axis value k
TotalOver(a, k) ==
    SumSeq([i \in DOMAIN res.cols_to_plot_y |-> SumOver(a, k, res.cols_to_plot_y[i])])

\* C12: with scaling 'none' and normalize_data the aggregated table has one
\* row per distinct axis value, and the cell of axis value k and category c
\* is (sum of c over the rows of k) / (sum of all plotted categories over the
\* rows of k); a row whose total is zero is left all zero.
C12_NormalizedSums ==
    (StackedRan /\ args.scaling = "none" /\ args.normalize_data) =>
        /\ DOMAIN res.grouped_df_scaled
              = {args.dataset.rows[i][args.meta_column] : i \in DOMAIN args.dataset.rows}
        /\ \A k \in DOMAIN res.grouped_df_scaled :
              \A c \in Range(res.cols_to_plot_y) :
                  res.grouped_df_scaled[k][c]
                     = IF TotalOver(args, k) = 0 THEN Zero
                       ELSE Reduce(SumOver(args, k, c), TotalOver(args, k))

\* rows (A, A): the proportions are those of the sums of both rows
C12_Witness ==
    /\ StackedRan /\ args.scaling = "none" /\ args.normalize_data
    /\ Len(args.dataset.rows) = 2
    /\ args.dataset.rows[1].site = "A" /\ args.dataset.rows[2].site = "A"
    /\ args.dataset.rows[1].x = 1 /\ args.dataset.rows[1].y = 0
    /\ args.dataset.rows[2].x = 1 /\ args.dataset.rows[2].y = 1
    /\ res.cols_to_plot_y = <<"x", "y">>
    /\ res.grouped_df_scaled["A"]["x"] = Reduce(2, 3)
    /\ res.grouped_df_scaled["A"]["y"] = Reduce(1, 3)

\* the distance from bar i - 1 to bar i: 1, plus group_spacing when the
\* group changes
StepTo(i) ==
    bar_step +
    (IF /\ Truthy(args.group_by_column)
        /\ res.internal_grouping_map[res.final_meta_order[i]]
              # res.internal_grouping_map[res.final_meta_order[i - 1]]
     THEN args.group_spacing ELSE 0)

\* C13: the bar positions of create_stacked_barplot are sequential: one
\* position per bar; without grouping bar i (0-based) is at x = i; with
\* group_by_column the first bar is at 0 and every later bar is 1 after the
\* previous one, plus group_spacing when its group differs; so for
\* group_spacing >= 0 the positions strictly increase.
C13_SequentialPositions ==
    StackedRan =>
        LET xs == res.layout.x_positions
        IN  /\ Len(xs) = Len(res.final_meta_order)
            /\ Len(xs) = Cardinality({args.dataset.rows[i][args.meta_column] :
                                         i \in DOMAIN args.dataset.rows})
            /\ ~Truthy(args.group_by_column) => \A i \in DOMAIN xs : xs[i] = (i - 1) * bar_step
            /\ xs # <<>> => xs[1] = 0
            /\ \A i \in DOMAIN xs : i > 1 => xs[i] = xs[i - 1] + StepTo(i)
            /\ \A i, j \in DOMAIN xs : i < j => xs[i] < xs[j]

\* three bars, the group changing twice, with a positive group_spacing
C13_Witness ==
    /\ StackedRan
    /\ Truthy(args.group_by_column)
    /\ args.group_spacing > 0
    /\ Interleaved
    /\ res.layout.x_positions = <<0, bar_step + args.group_spacing,
                                  2 * bar_step + 2 * args.group_spacing>>

\* the axis values in the order handed to the layout step: meta_order as
\* filtered, or the rows of the aggregated table
HandedToLayout ==
    IF res.fn = "create_stacked_barplot" THEN res.final_meta_order ELSE res.grouped_index

\* the position of an axis value in an order that holds it once
PositionIn(order, v) == CHOOSE i \in DOMAIN order : order[i] = v

LaidOut ==
    /\ res.fn \in {"create_stacked_barplot", "TEST_create_stacked_barplot"}
    /\ res.stage = "export"
    /\ Truthy(args.group_by_column)

\* C14: in create_stacked_barplot and in the TEST_ variant, two axis values of
\* the same group stand among the bars, from left to right, in the order they
\* have in the axis values handed to the layout step.
C14_OrderKeptWithinGroups ==
    LaidOut =>
        LET groups == internal_grouping_map(args)
            bars == res.layout.x_labels
        IN  /\ Range(bars) = Range(HandedToLayout)
            /\ \A u, v \in Range(bars) :
                  (groups[u] = groups[v] /\ PositionIn(HandedToLayout, u) < PositionIn(HandedToLayout, v))
                      => PositionIn(bars, u) < PositionIn(bars, v)


\* the category 'others' was created by the call
OthersCreated == (collapsing(args) \/ focus_value_list(args) # <<>>) /\ others_cols(args) # <<>>

\* the plotted category c takes its colour from the default palette
TakesDefault(c) ==
    /\ c \notin DOMAIN color_map_dict(args)
    /\ ~(OthersCreated /\ c = "others")
    /\ ~(collapsing(args) /\ c = Get(args.collapse_focus_values_as) /\ Truthy(args.collapsed_color))

\* the number of plotted categories before c that took a default colour
DefaultsBefore(c) ==
    Cardinality({i \in DOMAIN res.cols_to_plot_y :
                    /\ i < PositionIn(res.cols_to_plot_y, c)
                    /\ TakesDefault(res.cols_to_plot_y[i])})

\* C15: every plotted category of create_stacked_barplot has one colour, used
\* wherever the category is drawn: collapsed_color for the collapsed category
\* when given, else its colour in color_map when it has one, else 'gray' for
\* 'others', else the palette colour at index k mod the palette length, k
\* being the number of earlier categories that took a palette colour.
C15_CategoryColours ==
    StackedRan =>
        LET colours == res.category_colors_internal_map
            palette == args.rcParams.axes_prop_cycle
        IN  /\ DOMAIN colours = Range(res.cols_to_plot_y)
            /\ Len(res.final_colors_for_plotting) = Len(res.sorted_categories)
            /\ \A i \in DOMAIN res.sorted_categories :
                  res.final_colors_for_plotting[i] = colours[res.sorted_categories[i]]
            /\ \A c \in Range(res.cols_to_plot_y) :
                  colours[c] =
                      IF collapsing(args) /\ c = Get(args.collapse_focus_values_as)
                            /\ Truthy(args.collapsed_color)
                      THEN Get(args.collapsed_color)
                      ELSE IF c \in DOMAIN color_map_dict(args) THEN color_map_dict(args)[c]
                      ELSE IF OthersCreated /\ c = "others" THEN "gray"
                      ELSE palette[(DefaultsBefore(c) % Len(palette)) + 1]

\* three categories on a palette of one colour, the first coloured by
\* color_map: the other two share the palette's colour
C15_Witness ==
    /\ StackedRan
    /\ res.cols_to_plot_y = <<"x", "y", "z">>
    /\ args.rcParams.axes_prop_cycle = <<"C0">>
    /\ res.category_colors_internal_map = [c \in {"x", "y", "z"} |-> IF c = "x" THEN "blue" ELSE "C0"]


\* C16: in create_stacked_barplot, a call that passes validation with an
\* output path saves output + '.pdf' and output + '.png' and returns; with
\* output None it writes no file, raises nothing and returns its result.
C16_OutputOptional ==
    StackedRan =>
        /\ ~IsNone(args.output) =>
              /\ {<<Get(args.output), ".pdf">>, <<Get(args.output), ".png">>} \subseteq res.files
              /\ res.returned
        /\ IsNone(args.output) =>
              /\ res.files = {}
              /\ res.raised = NoError
              /\ res.returned

\* the distinct axis values of the table of the call
AxisValuesPresent == Range(Column(args.dataset, args.meta_column))

C18_NothingPersists ==
    /\ res.fn = "create_stacked_barplot" =>
          res.rcParams = args.rcParams /\ res.dataset = args.dataset
    /\ res.fn = "create_heatmap" =>
          res.rcParams = args.rcParams /\ res.df = args.df

\* C19: in create_stacked_barplot with a non-empty focus_value and no
\* collapse name, the plotted categories are the focus_value columns, each
\* with its own values, followed by one category 'others' whose value in
\* every row is the sum of the value columns outside focus_value; there is no
\* 'others' when focus_value is None or empty, where every value column is
\* plotted, nor when focus_value holds every value column.
C19_FocusAndOthers ==
    (StackedRan /\ IsNone(args.collapse_focus_values_as)) =>
        LET focus == IF IsNone(args.focus_value) THEN <<>> ELSE Get(args.focus_value)
            rest == Range(args.value_columns) \ Range(focus)
            plotted == res.cols_to_plot_y
        IN  /\ \A k \in DOMAIN res.grouped_df : DOMAIN res.grouped_df[k] = Range(plotted)
            /\ IF focus = <<>>
               THEN plotted = args.value_columns
               ELSE /\ plotted = focus \o (IF rest = {} THEN <<>> ELSE <<"others">>)
                    /\ \A i \in DOMAIN args.dataset.rows :
                          /\ \A c \in Range(focus) :
                                res.df_plot[i][c] = args.dataset.rows[i][c]
                          /\ rest # {} =>
                                res.df_plot[i]["others"]
                                    = CategoryValue(args, args.dataset.rows[i], "others")
            /\ (focus = <<>> \/ rest = {}) => "others" \notin Range(plotted)

\* focus on y alone: 'others' is the sum of x and z, both non-zero
C19_Witness ==
    /\ StackedRan /\ IsNone(args.collapse_focus_values_as)
    /\ args.focus_value = Some(<<"y">>)
    /\ res.cols_to_plot_y = <<"y", "others">>
    /\ args.dataset.rows[1].x = 1 /\ args.dataset.rows[1].z = 1
    /\ res.df_plot[1]["others"] = 2

\* create_heatmap got past its validation
HeatmapFiltered == res.fn = "create_heatmap" /\ res.stage \in {"filter", "return"}

\* C20: create_heatmap keeps a value column exactly when the fraction of rows
\* with a value >= min_relative_abundance is >= min_sample_percentage and,
\* with remove_all_zero, its values are not all zero; the kept columns stand
\* in their input order (when none is kept the call stops), and with
\* thresholds 0, 0 and remove_all_zero False every value column is kept.
C20_HeatmapFilters ==
    HeatmapFiltered =>
        /\ res.stage = "return" <=> Remaining(args) # {}
        /\ res.stage = "return" =>
              /\ Range(res.value_columns) = Remaining(args)
              /\ NoDup(res.value_columns)
              /\ \A u, v \in Remaining(args) :
                    PositionIn(args.value_columns, u) < PositionIn(args.value_columns, v)
                        => PositionIn(res.value_columns, u) < PositionIn(res.value_columns, v)
              /\ res.value # None => res.value[1].heatmap = res.value_columns
        /\ (/\ args.min_relative_abundance = 0
            /\ args.min_sample_percentage = Zero
            /\ ~args.remove_all_zero
            /\ args.value_columns # <<>>) =>
              res.stage = "return" /\ res.value_columns = args.value_columns

\* of y (all zero) and x, in that order, with half of the rows of x reaching
\* the abundance 1: at the threshold 1/2 x alone is kept
C20_Witness ==
    /\ HeatmapFiltered
    /\ args.value_columns = <<"y", "x">>
    /\ args.min_relative_abundance = 1
    /\ args.min_sample_percentage = Reduce(1, 2)
    /\ Len(args.df.rows) = 2
    /\ args.df.rows[1].x = 1 /\ args.df.rows[2].x = 0
    /\ res.stage = "return"
    /\ res.value_columns = <<"x">>

\* the call of ridgeline_from_known_density_plot got past validation
RidgelineRan == res.fn = "ridgeline_from_known_density_plot" /\ res.stage = "export"

\* the categories of the table in the order the claim describes
CategoriesInOrder ==
    IF IsNone(args.category_order)
    THEN SortedKeys(Column(args.dataset, args.category_column))
    ELSE Get(args.category_order)

\* the calls the claim says are rejected with a ValueError
RidgelineRejects ==
    \/ args.overlap < 0
    \/ args.overlap > 20
    \/ /\ ~IsNone(args.category_order)
       /\ \E c \in Range(Get(args.category_order)) :
              c \notin Range(Column(args.dataset, args.category_column))

\* i * max_density * (1 - overlap)
ProductBaseline(i) ==
    FracMul(Frac(i), FracMul(max_overall_density(args), Reduce(20 - args.overlap, 20)))

\* i * 0.5 when the largest density is zero, the product otherwise
ShiftedBaseline(i) ==
    IF max_overall_density(args) = Zero THEN Reduce(i, 2) ELSE ProductBaseline(i)

NeverDecrease(b) == \A i \in 1..(Len(b) - 1) : ~FracLess(b[i + 1], b[i])

StrictlyIncrease(b) == \A i \in 1..(Len(b) - 1) : FracLess(b[i], b[i + 1])

LaidOutGroups ==
    [i \in DOMAIN res.layout.x_labels |-> internal_grouping_map(args)[res.layout.x_labels[i]]]

\* every group forms one run: no bar of another group stands between two
\* bars of a group
OneRunPerGroup(groups) ==
    \A i, k \in DOMAIN groups :
        (i < k /\ groups[i] = groups[k]) => \A j \in i..k : groups[j] = groups[i]

\* C22: with group_by_column, in create_stacked_barplot and in the TEST_
\* variant, all bars of the same group occupy consecutive positions of the
\* final left-to-right bar order, whether or not meta_order is given.
C22_GroupsFormOneRun == LaidOut => OneRunPerGroup(LaidOutGroups)

\* the first positions of the maximal runs of equal neighbours, left to right
RunStarts(groups) ==
    Filter([i \in DOMAIN groups |-> i],
           {i \in DOMAIN groups : i = 1 \/ groups[i] # groups[i - 1]})

\* the last position of the maximal run that starts at i
RunEnd(groups, i) ==
    CHOOSE k \in i..Len(groups) :
        /\ \A j \in i..k : groups[j] = groups[i]
        /\ k = Len(groups) \/ groups[k + 1] # groups[i]

\* C23: in create_stacked_barplot with group_by_column, after the layout loop
\* group_label_data holds exactly one entry per maximal run of consecutive
\* bars sharing a group, in left-to-right order; each entry is (group, x of
\* the run's first bar - group_bracket_horizontal_line_length, x of the run's
\* last bar + group_bracket_horizontal_line_length), and no entry is left
\* with a None end coordinate.
C23_OneEntryPerRun ==
    GroupedRan("create_stacked_barplot") =>
        LET gld == res.layout.group_label_data
            xs == res.layout.x_positions
            hl == args.group_bracket_horizontal_line_length
            starts == RunStarts(GroupSequence)
        IN  /\ Len(gld) = Len(starts)
            /\ \A k \in DOMAIN gld :
                  /\ gld[k].end_x # None
                  /\ gld[k].group = Some(GroupSequence[starts[k]])
                  /\ gld[k].start_x = Some(xs[starts[k]] - hl)
                  /\ gld[k].end_x = Some(xs[RunEnd(GroupSequence, starts[k])] + hl)

\* three bars in two runs, the last run of two bars, with a positive
\* group_spacing
C23_Witness ==
    /\ GroupedRan("create_stacked_barplot")
    /\ args.group_spacing > 0
    /\ Len(res.layout.x_positions) = 3
    /\ Len(res.layout.group_label_data) = 2
    /\ res.layout.group_label_data[2].end_x
          = Some(res.layout.x_positions[3] + args.group_bracket_horizontal_line_length)
    /\ res.layout.group_label_data[2].start_x
          = Some(res.layout.x_positions[2] - args.group_bracket_horizontal_line_length)

\* C24: in create_stacked_barplot and create_boxplot with both
\* group_by_column and meta_order given, the non-contiguous-groups warning is
\* issued if and only if some group value occurs at two positions of the
\* final bar order with a different group value at a position between them.
C24_WarningIffNonContiguous ==
    (\/ GroupedRan("create_stacked_barplot")
     \/ GroupedRan("create_boxplot")) /\ ~IsNone(args.meta_order)
        => (res.warned <=> Interleaved)

\* the warning issued by create_boxplot for an order that splits a group, and
\* for no other reason
C24_Witness ==
    /\ GroupedRan("create_boxplot")
    /\ ~IsNone(args.meta_order)
    /\ res.warned
    /\ GroupSequence[1] = GroupSequence[3]
    /\ GroupSequence[1] # GroupSequence[2]

\* C25: in the TEST_ variant with group_by_column, for every group and every
\* group_spacing >= 0, the start coordinate recorded for the group is the x
\* position of its first bar and the end coordinate is the x position of its
\* last bar (the bracket is drawn from half a bar before the one to half a
\* bar after the other).
C25_BracketEndsOnBars ==
    GroupedRan("TEST_create_stacked_barplot") =>
        LET gld == res.layout.group_label_data
            xs == res.layout.x_positions
            starts == RunStarts(LaidOutGroups)
        IN  /\ Len(gld) = Len(starts)
            /\ \A k \in DOMAIN gld :
                  /\ gld[k].start_x = Some(xs[starts[k]])
                  /\ gld[k].end_x = Some(xs[RunEnd(LaidOutGroups, starts[k])])

\* the bars that stand between the two ends of a bracket
BarsWithin(b) ==
    {i \in DOMAIN res.layout.x_positions :
        /\ Get(b.start_x) <= res.layout.x_positions[i]
        /\ res.layout.x_positions[i] <= Get(b.end_x)}

ValueIn(r, c) == IF c \in DOMAIN r THEN r[c] ELSE 0

\* C27: in create_stacked_barplot with collapse_focus_values_as, for each
\* input row the collapsed category's value plus the 'others' value (0 when
\* absent) equals the sum of all value_columns of that row, for every collapse
\* name that validation accepts, a name equal to one of the value_columns
\* included.
C27_CollapseConservesTotals ==
    (StackedRan /\ collapsing(args)) =>
        \A i \in DOMAIN args.dataset.rows :
            ValueIn(res.df_plot[i], Get(args.collapse_focus_values_as))
                + (IF "others" \in Range(res.cols_to_plot_y)
                   THEN ValueIn(res.df_plot[i], "others") ELSE 0)
              = SumSeq([k \in DOMAIN args.value_columns |->
                           args.dataset.rows[i][args.value_columns[k]]])

\* the call of create_dodged_barplot got past validation
DodgedRan == res.fn = "create_dodged_barplot" /\ res.stage # "validation"

\* C28: in create_dodged_barplot every plotted category is assigned a colour,
\* for any number of plotted categories: the focus categories take the
\* default palette colours in order, reused cyclically when the categories
\* outnumber the palette, and 'others' is gray; the colour lookup for
\* category i never fails.
C28_EveryCategoryColoured ==
    DodgedRan =>
        /\ res.raised = NoError
        /\ Len(res.bar_colors) = Len(res.cols_to_plot_y)
        /\ \A i \in DOMAIN res.bar_colors :
              res.bar_colors[i] =
                  IF res.cols_to_plot_y[i] = "others" THEN "gray"
                  ELSE default_color(args, i - 1)

====
